---- MODULE Spec2Model ----
(***************************************************************************)
(* Model of the tool-calling orchestration loop of the UMS UI agent:       *)
(* DialClient.response / stream_response / _collect_tool_calls /           *)
(* _call_tools (agent/clients/dial_client.py), Message.to_dict             *)
(* (agent/models/message.py), the registry built by lifespan               *)
(* (agent/app.py) and the chat handlers of ConversationManager             *)
(* (agent/conversation_manager.py).                                        *)
(*                                                                         *)
(* Encoding of Python values:                                              *)
(*   - text is a TLA+ string, concatenated with \o;                        *)
(*   - Python's None is the reserved string None (no program text equals   *)
(*     it); str(None) is "None" (PyStr);                                   *)
(*   - Message.tool_calls = None is the empty sequence <<>> (the code      *)
(*     never stores an empty list there);                                  *)
(*   - a key absent from a dict is the marker Omitted;                     *)
(*   - a dict kept in insertion order (the defaultdict of                  *)
(*     _collect_tool_calls) is a sequence of [idx, call] entries.          *)
(***************************************************************************)
EXTENDS Integers, Sequences, FiniteSets, TLC

\* ---------------------------------------------------------------- bounds
\* The gateway issues at most this many tool calls over one run (all in one
\* batch, or spread over several rounds).
MaxToolCalls == 2

\* This many chat requests reach the handlers of the ConversationManager.
MaxRuns == 2

\* ---------------------------------------------------------------- values
None == "<None>"

Truthy(x) == x /= None /\ x /= ""

PyStr(x) == IF x = None THEN "None" ELSE x

\* Role (StrEnum)
Role == [SYSTEM |-> "system", USER |-> "user", ASSISTANT |-> "assistant", TOOL |-> "tool"]

\* Message(role, content=None, tool_call_id=None, name=None, tool_calls=None)
Message(role, content, tool_call_id, name, tool_calls) ==
    [role |-> role, content |-> content, tool_call_id |-> tool_call_id,
     name |-> name, tool_calls |-> tool_calls]

\* Message.to_dict: role always, the other four fields only when truthy.
\* A key left out of the dict is the marker Omitted (<<>> for tool_calls).
Omitted == "<omitted>"

\* A serialisation that writes all five keys whatever they hold.
to_dict_AllKeys(msg) ==
    [role |-> msg.role, content |-> msg.content, name |-> msg.name,
     tool_call_id |-> msg.tool_call_id, tool_calls |-> msg.tool_calls]

to_dict(msg) ==
    [role |-> msg.role,
     content |-> IF Truthy(msg.content) THEN msg.content ELSE Omitted,
     name |-> IF Truthy(msg.name) THEN msg.name ELSE Omitted,
     tool_call_id |-> IF Truthy(msg.tool_call_id) THEN msg.tool_call_id ELSE Omitted,
     tool_calls |-> IF msg.tool_calls /= <<>> THEN msg.tool_calls ELSE <<>>]

\* [msg.to_dict() for msg in messages]
WireMessages(messages) == [i \in 1..Len(messages) |-> to_dict(messages[i])]

\* ---------------------------------------------------------------- texts
\* json.loads on the argument texts the gateway can send: "{}" and
\* "{\"id\":42}"-like mappings parse, a truncated text raises JSONDecodeError.
ArgsOk == "{}"
ArgsBad == "{"
ArgTexts == {ArgsOk, ArgsBad}

JsonLoads(text) ==
    IF text = "{}" THEN [ok |-> TRUE, value |-> "dict"]
    ELSE [ok |-> FALSE, value |-> "JSONDecodeError"]

ContentTexts == {None, "Hi"}

\* The ways the gateway cuts a text into stream pieces (whole, or in parts).
SplitText(text) ==
    CASE text = "Hi" -> <<"H", "i">>
      [] text = "{}" -> <<"{", "}">>
      [] OTHER -> <<text>>

\* ---------------------------------------------------------------- registry
\* The executors, in startup order.
Executors == <<"ums", "fetch", "duckduckgo">>

\* What the MCP servers list at startup:
\*   standard   every server lists its own tools;
\*   empty      no server lists any tool;
\*   collision  the DuckDuckGo server also lists a tool named get_user,
\*              which the UMS server has declared before it.
Listings == {"standard", "empty", "collision"}

\* session.list_tools() of one server.
ExecutorTools(listing, client) ==
    CASE listing = "empty" -> <<>>
      [] client = "ums" -> <<"get_user", "delete_user">>
      [] client = "fetch" -> <<"fetch">>
      [] listing = "collision" -> <<"search", "get_user">>
      [] OTHER -> <<"search">>

\* get_tools: MCP {name, description, inputSchema} -> DIAL descriptor.
get_tools(listing, client) ==
    [i \in 1..Len(ExecutorTools(listing, client)) |->
        [type |-> "function",
         function |-> [name |-> ExecutorTools(listing, client)[i],
                       description |-> "d",
                       parameters |-> "schema"]]]

\* The `for tool in ..._tools` loop of lifespan, for one executor:
\* tools.append(tool); tool_name_client_map[name] = client.
\* A registration that keeps the executor that declared a name first.
RECURSIVE RegisterTools_FirstWins(_, _, _)
RegisterTools_FirstWins(reg, client, descriptors) ==
    IF descriptors = <<>> THEN reg
    ELSE LET tool == Head(descriptors)
             name == tool.function.name
             taken == \E e \in reg.map : e[1] = name
         IN RegisterTools_FirstWins(
                [tools |-> Append(reg.tools, tool),
                 map |-> IF taken THEN reg.map ELSE reg.map \cup {<<name, client>>}],
                client, Tail(descriptors))

\* A registration that lists a name once: a descriptor whose name is
\* already in the map replaces the executor but is not appended again.
RECURSIVE RegisterTools_ListsNameOnce(_, _, _)
RegisterTools_ListsNameOnce(reg, client, descriptors) ==
    IF descriptors = <<>> THEN reg
    ELSE LET tool == Head(descriptors)
             name == tool.function.name
             taken == \E e \in reg.map : e[1] = name
             others == {e \in reg.map : e[1] /= name}
         IN RegisterTools_ListsNameOnce(
                [tools |-> IF taken THEN reg.tools ELSE Append(reg.tools, tool),
                 map |-> others \cup {<<name, client>>}],
                client, Tail(descriptors))

\* for tool in await client.get_tools(): tools.append(tool);
\* tool_name_client_map[name] = client
RECURSIVE RegisterTools(_, _, _)
RegisterTools(reg, client, descriptors) ==
    IF descriptors = <<>> THEN reg
    ELSE LET tool == Head(descriptors)
             name == tool.function.name
             others == {e \in reg.map : e[1] /= name}
         IN RegisterTools([tools |-> Append(reg.tools, tool),
                           map |-> others \cup {<<name, client>>}],
                          client, Tail(descriptors))

\* lifespan: UMS, then Fetch, then DuckDuckGo.
RECURSIVE RegisterAll(_, _, _)
RegisterAll(reg, clients, listing) ==
    IF clients = <<>> THEN reg
    ELSE RegisterAll(RegisterTools(reg, Head(clients), get_tools(listing, Head(clients))),
                     Tail(clients), listing)

lifespan(listing) == RegisterAll([tools |-> <<>>, map |-> {}], Executors, listing)

\* tool_name_client_map.get(tool_name)
MapGet(map, name) ==
    IF \E e \in map : e[1] = name
    THEN (CHOOSE e \in map : e[1] = name)[2]
    ELSE None

\* mcp_client.call_tool(tool_name, tool_args): the UMS server fails a
\* delete_user ("not found"), every other tool returns a text.
call_tool(client, tool_name, tool_args) ==
    IF tool_name = "delete_user"
    THEN [ok |-> FALSE, value |-> "not found"]
    ELSE [ok |-> TRUE, value |-> "ok"]

\* ---------------------------------------------------------------- gateway
\* Names the model may ask for: two registered tools and one unknown name.
ToolNames == {"get_user", "delete_user", "nope"}

\* The id the completion service assigns to the n-th tool call of a run.
CallId(n) == "call_" \o ToString(n)

\* One entry of response.choices[0].message.tool_calls.
ToolCall(id, name, arguments) ==
    [id |-> id, type |-> "function",
     function |-> [name |-> name, arguments |-> arguments]]

\* The responses the gateway may give when it has already issued `issued`
\* tool calls in this run: a content and 0..(MaxToolCalls - issued) calls.
Responses(issued) ==
    UNION {
        {[content |-> c,
          tool_calls |-> [i \in 1..k |-> ToolCall(CallId(issued + i), f[i][1], f[i][2])]]
            : c \in ContentTexts, f \in [1..k -> ToolNames \X ArgTexts]}
        : k \in 0..(MaxToolCalls - issued)}

\* One element of chunk.choices[0].delta.tool_calls.
Fragment(index, id, type, name, arguments) ==
    [index |-> index, id |-> id, type |-> type,
     function |-> [name |-> name, arguments |-> arguments]]

\* chunk.choices[0].delta
Delta(content, tool_calls) == [content |-> content, tool_calls |-> tool_calls]

\* How the gateway may cut one response into a stream:
\*   whole    one content delta, one fragment per call, ascending index;
\*   reverse  as whole, the calls in descending index order;
\*   split    a role chunk with empty content, the content in pieces, one
\*            chunk carrying the head fragment of every call (id, type,
\*            name, first piece of the arguments), then the remaining
\*            argument pieces of each call;
\*   noid     as whole, but no fragment ever carries an id;
\*   renamed  as whole, but every call is announced by an earlier fragment
\*            of its index that carries another id and another name.
FaithfulStyles == {"whole", "reverse", "split"}
Styles == FaithfulStyles \cup {"noid", "renamed"}

\* The fragment that announces call i in the renamed style.
DraftFragment(i) == Fragment(i - 1, "call_draft", "function", "draft", "")

RECURSIVE TailFragments(_, _, _)
TailFragments(tcs, i, p) ==
    IF i > Len(tcs) THEN <<>>
    ELSE LET pieces == SplitText(tcs[i].function.arguments)
         IN IF p > Len(pieces) THEN TailFragments(tcs, i + 1, 2)
            ELSE <<Delta(None, <<Fragment(i - 1, None, None, None, pieces[p])>>)>>
                 \o TailFragments(tcs, i, p + 1)

Chunks(resp, style) ==
    LET tcs == resp.tool_calls
        k == Len(tcs)
        one(i, id) == Delta(None, <<Fragment(i - 1, id, tcs[i].type,
                                            tcs[i].function.name,
                                            tcs[i].function.arguments)>>)
        contentWhole == IF resp.content = None THEN <<>>
                        ELSE <<Delta(resp.content, <<>>)>>
        contentSplit == IF resp.content = None THEN <<>>
                        ELSE [j \in 1..Len(SplitText(resp.content)) |->
                                 Delta(SplitText(resp.content)[j], <<>>)]
        heads == [i \in 1..k |->
                     Fragment(i - 1, tcs[i].id, tcs[i].type, tcs[i].function.name,
                              SplitText(tcs[i].function.arguments)[1])]
    IN CASE style = "whole" -> contentWhole \o [i \in 1..k |-> one(i, tcs[i].id)]
         [] style = "reverse" ->
                contentWhole \o [i \in 1..k |-> one(k + 1 - i, tcs[k + 1 - i].id)]
         [] style = "noid" -> contentWhole \o [i \in 1..k |-> one(i, None)]
         [] style = "renamed" ->
                contentWhole
                \o [j \in 1..(2 * k) |->
                       IF j % 2 = 1 THEN Delta(None, <<DraftFragment((j + 1) \div 2)>>)
                       ELSE one(j \div 2, tcs[j \div 2].id)]
         [] OTHER ->
                <<Delta("", <<>>)>> \o contentSplit
                \o (IF k = 0 THEN <<>> ELSE <<Delta(None, heads)>>)
                \o TailFragments(tcs, 1, 2)

\* ---------------------------------------------------------------- assembler
\* tool_dict[idx] of the defaultdict: the entry for idx, created at the end
\* of the dict (insertion order) on first access.
DefaultCall == [id |-> None, function |-> [arguments |-> "", name |-> None], type |-> None]

HasIdx(tool_dict, idx) == \E j \in 1..Len(tool_dict) : tool_dict[j].idx = idx

Touch(tool_dict, idx) ==
    IF HasIdx(tool_dict, idx) THEN tool_dict
    ELSE Append(tool_dict, [idx |-> idx, call |-> DefaultCall])

\* A merge with one accumulator shared by all indices: an argument chunk is
\* appended to every entry.
MergeDelta_SharedAccumulator(tool_dict, delta) ==
    LET touched == Truthy(delta.id) \/ Truthy(delta.function.name)
                   \/ Truthy(delta.function.arguments) \/ Truthy(delta.type)
        d == IF touched THEN Touch(tool_dict, delta.index) ELSE tool_dict
    IN [j \in 1..Len(d) |->
          [idx |-> d[j].idx,
           call |->
             [id |-> IF d[j].idx = delta.index /\ Truthy(delta.id)
                     THEN delta.id ELSE d[j].call.id,
              function |->
                [name |-> IF d[j].idx = delta.index /\ Truthy(delta.function.name)
                          THEN delta.function.name
                          ELSE d[j].call.function.name,
                 arguments |-> IF Truthy(delta.function.arguments)
                               THEN d[j].call.function.arguments
                                    \o delta.function.arguments
                               ELSE d[j].call.function.arguments],
              type |-> IF d[j].idx = delta.index /\ Truthy(delta.type)
                       THEN delta.type ELSE d[j].call.type]]]

\* A merge in which a fragment without an id or a name clears the field.
MergeDelta_ClearsOnAbsent(tool_dict, delta) ==
    LET d == Touch(tool_dict, delta.index)
    IN [j \in 1..Len(d) |->
          IF d[j].idx /= delta.index THEN d[j]
          ELSE [idx |-> d[j].idx,
                call |->
                  [id |-> delta.id,
                   function |->
                     [name |-> delta.function.name,
                      arguments |-> IF Truthy(delta.function.arguments)
                                    THEN d[j].call.function.arguments
                                         \o delta.function.arguments
                                    ELSE d[j].call.function.arguments],
                   type |-> IF Truthy(delta.type) THEN delta.type ELSE d[j].call.type]]]

\* A merge that keeps the first id and the first name of an index.
MergeDelta_FirstWins(tool_dict, delta) ==
    LET touched == Truthy(delta.id) \/ Truthy(delta.function.name)
                   \/ Truthy(delta.function.arguments) \/ Truthy(delta.type)
        d == IF touched THEN Touch(tool_dict, delta.index) ELSE tool_dict
    IN [j \in 1..Len(d) |->
          IF d[j].idx /= delta.index THEN d[j]
          ELSE [idx |-> d[j].idx,
                call |->
                  [id |-> IF Truthy(delta.id) /\ d[j].call.id = None
                          THEN delta.id ELSE d[j].call.id,
                   function |->
                     [name |-> IF Truthy(delta.function.name)
                                  /\ d[j].call.function.name = None
                               THEN delta.function.name
                               ELSE d[j].call.function.name,
                      arguments |-> IF Truthy(delta.function.arguments)
                                    THEN d[j].call.function.arguments
                                         \o delta.function.arguments
                                    ELSE d[j].call.function.arguments],
                   type |-> IF Truthy(delta.type) THEN delta.type ELSE d[j].call.type]]]

\* The body of `for delta in tool_deltas` for one delta.
MergeDelta(tool_dict, delta) ==
    LET touched == Truthy(delta.id) \/ Truthy(delta.function.name)
                   \/ Truthy(delta.function.arguments) \/ Truthy(delta.type)
        d == IF touched THEN Touch(tool_dict, delta.index) ELSE tool_dict
    IN [j \in 1..Len(d) |->
          IF d[j].idx /= delta.index THEN d[j]
          ELSE [idx |-> d[j].idx,
                call |->
                  [id |-> IF Truthy(delta.id) THEN delta.id ELSE d[j].call.id,
                   function |->
                     [name |-> IF Truthy(delta.function.name)
                               THEN delta.function.name
                               ELSE d[j].call.function.name,
                      arguments |-> IF Truthy(delta.function.arguments)
                                    THEN d[j].call.function.arguments
                                         \o delta.function.arguments
                                    ELSE d[j].call.function.arguments],
                   type |-> IF Truthy(delta.type) THEN delta.type ELSE d[j].call.type]]]

RECURSIVE MergeDeltas(_, _)
MergeDeltas(tool_dict, tool_deltas) ==
    IF tool_deltas = <<>> THEN tool_dict
    ELSE MergeDeltas(MergeDelta(tool_dict, Head(tool_deltas)), Tail(tool_deltas))

\* DialClient._collect_tool_calls: list(tool_dict.values())
collect_tool_calls(tool_deltas) ==
    LET tool_dict == MergeDeltas(<<>>, tool_deltas)
    IN [j \in 1..Len(tool_dict) |-> tool_dict[j].call]

\* ---------------------------------------------------------------- state
VARIABLES
    tools,                 \* DialClient.tools
    tool_name_client_map,  \* DialClient.tool_name_client_map, as <<name, client>> pairs
    listing,               \* what the MCP servers listed at startup
    mode,                  \* "blocking" (_non_stream_chat) or "streaming" (_stream_chat)
    pc,                    \* where the run is suspended
    messages,              \* the history list the handlers append to
    ai_message,            \* the assistant message of the current round
    callIdx,               \* position of _call_tools in ai_message.tool_calls
    stream,                \* the chunks of the gateway stream not yet consumed
    content_buffer,        \* stream_response's content_buffer
    tool_deltas,           \* stream_response's tool_deltas
    received,              \* delta.content of every chunk consumed, round by round
    emitted,               \* the events yielded to the caller so far
    result,                \* what _non_stream_chat returned
    failure,               \* the exception that ended the run, or None
    store,                 \* the persisted conversation
    gatewayCalls,          \* completions requested by this run
    lastRequest,           \* arguments of the latest chat.completions.create
    issued,                \* tool calls the gateway has issued in this run
    invoked,               \* the call_tool invocations of this run, in order
    style,                 \* how the gateway cuts its responses into chunks in this run
    script,                \* the responses the blocking run received
    replay,                \* TRUE while the streaming run replays the script
    blockingEnd            \* how the blocking run ended, for the replay

\* The state of the ConversationManager and of Redis behind it.
VARIABLES
    kv,                    \* Redis string keys: key -> value, Absent if the key is not set
    zset,                  \* the sorted set "conversations:list": member -> score
    clock,                 \* the instant the latest datetime.now(UTC) returned
    minted,                \* the ids uuid4 has returned
    runs,                  \* the chat handlers entered, by request
    deletes,               \* delete_conversation calls in flight, by id
    reply,                 \* what the step into this state returned or yielded to its caller
    updates,               \* the conversations in the order of their latest create / save
    deleted                \* the ids for which delete_conversation has returned True

\* The MCP clients (HttpMCPClient, StdioMCPClient), one per executor.
VARIABLES
    session,               \* self.session of each client: None or the ClientSession
    connect_pc,            \* where create() / connect() of each client stands
    requests,              \* <<client, method>>: what the MCP servers were asked by the
                           \* client steps (tool invocations of a run are in `invoked`)
    mcp_reply              \* what the client operation stepping into this state gave

mcp == <<session, connect_pc, requests, mcp_reply>>

loop == <<received, style, mode, pc, messages, ai_message,
          callIdx, stream, content_buffer, tool_deltas, emitted, result, failure, store,
          gatewayCalls, lastRequest, issued, invoked, script, replay, blockingEnd>>

dial == <<tools, tool_name_client_map, listing, mcp, loop>>

manager == <<kv, zset, clock, minted, runs, deletes, reply, updates, deleted>>

vars == <<dial, manager>>

registry == <<tools, tool_name_client_map, listing, mcp>>
streamVars == <<stream, content_buffer, tool_deltas, received>>
harness == <<script, replay, blockingEnd, style>>

\* The history chat() hands to the handlers: it ends with the user message.
InitialMessages == <<Message(Role.USER, "delete user 42", None, None, <<>>)>>

NoMessage == Message(Role.ASSISTANT, None, None, None, <<>>)

NoRequest == [messages |-> <<>>, tools |-> [is_none |-> TRUE, list |-> <<>>],
              stream |-> FALSE]

NoEnd == [messages |-> <<>>, content |-> None]

EmptyStore == [messages |-> <<>>, saves |-> 0]

\* ------------------------------------------------- conversation store
\* Redis behind the ConversationManager: the string keys
\* "conversation:{id}" (kv) and the one sorted set "conversations:list"
\* (zset, as <<member, score>> pairs). A JSON text is the record
\* [json |-> value]; the nil reply of GET (Python's None) is Nil.
CONVERSATION_PREFIX == "conversation:"

\* str(uuid.uuid4()): an id never returned before. The ids of the pool are
\* alike to the code, so they are handed out in this order.
UuidPool == <<"id1", "id2">>

ConversationIds == {UuidPool[n] : n \in 1..Len(UuidPool)}

uuid4(used) == UuidPool[Cardinality(used) + 1]

\* An id no conversation ever had.
UnknownId == "no-such-id"

RequestIds == ConversationIds \cup {UnknownId}

ConversationKey(conversation_id) == CONVERSATION_PREFIX \o conversation_id

Keys == {ConversationKey(id) : id \in RequestIds}

Nil == [nil |-> TRUE]

json_dumps(obj) == [json |-> obj]

\* json.loads(None) raises TypeError.
json_loads(text) ==
    IF text = Nil THEN [ok |-> FALSE, value |-> "TypeError"]
    ELSE [ok |-> TRUE, value |-> text.json]

RedisGet(db, key) == db[key]

RedisSet(db, key, value) == [db EXCEPT ![key] = value]

\* DEL answers the number of keys it removed.
RedisDelete(db, key) ==
    [db |-> [db EXCEPT ![key] = Nil], count |-> IF db[key] = Nil THEN 0 ELSE 1]

\* ZADD adds the member or replaces its score.
RedisZadd(z, member, score) == {e \in z : e[1] /= member} \cup {<<member, score>>}

RedisZrem(z, member) == {e \in z : e[1] /= member}

\* ZREVRANGE key 0 -1: every member, highest score first. Each score is
\* the instant of its own datetime.now(UTC) call, so no two members have
\* the same score.
RECURSIVE RedisZrevrange(_)
RedisZrevrange(z) ==
    IF z = {} THEN <<>>
    ELSE LET top == CHOOSE e \in z : \A f \in z : f[2] <= e[2]
         IN <<top[1]>> \o RedisZrevrange(z \ {top})

\* datetime.now(UTC): later than every instant returned before.
Now(instant) == instant + 1

isoformat(instant) == "T" \o ToString(instant)

timestamp(instant) == instant

NoConversation ==
    [id |-> None, title |-> None, messages |-> <<>>, created_at |-> None,
     updated_at |-> None]

\* msg.model_dump(): all five fields, None included.
model_dump(msg) ==
    [role |-> msg.role, content |-> msg.content, tool_call_id |-> msg.tool_call_id,
     name |-> msg.name, tool_calls |-> msg.tool_calls]

\* The summary list_conversations builds from a stored conversation.
Summary(conv) ==
    [id |-> conv.id, title |-> conv.title, created_at |-> conv.created_at,
     updated_at |-> conv.updated_at, message_count |-> Len(conv.messages)]

\* The loop of list_conversations over the ids of the index: an id whose
\* key is gone is skipped.
RECURSIVE Summaries(_, _)
Summaries(conversation_ids, db) ==
    IF conversation_ids = <<>> THEN <<>>
    ELSE LET conv_data == RedisGet(db, ConversationKey(Head(conversation_ids)))
             rest == Summaries(Tail(conversation_ids), db)
         IN IF conv_data /= Nil
            THEN <<Summary(json_loads(conv_data).value)>> \o rest
            ELSE rest

\* Chat requests that reach a handler, in the order they arrive.
Runs == 1..MaxRuns

IdleRun ==
    [conv |-> None, stream |-> FALSE, pc |-> "idle", messages |-> <<>>,
     conversation |-> NoConversation]

NoDelete == [pending |-> FALSE, deleted_count |-> 0]

\* What a response can carry: a detail or content text, a conversation,
\* the summaries, the events yielded.
NoBody ==
    [detail |-> None, conversation |-> NoConversation, conversations |-> <<>>,
     events |-> <<>>]

NoReply == [op |-> "none", id |-> None, status |-> 0, error |-> None, body |-> NoBody]

\* ------------------------------------------------- MCP clients
ClientNames == {Executors[c] : c \in 1..Len(Executors)}

\* The object ClientSession.__aenter__() returns.
ClientSession == "ClientSession"

NoMcpReply == [client |-> None, op |-> "none", error |-> None, tools |-> <<>>, text |-> None]

\* lifespan has run: every client was returned by create() and was asked
\* for its tools.
ClientsConnected ==
    /\ session = [c \in ClientNames |-> ClientSession]
    /\ connect_pc = [c \in ClientNames |-> "connected"]
    /\ requests = ClientNames \X {"initialize", "list_tools"}
    /\ mcp_reply = NoMcpReply

\* Nothing is stored and no request has been made.
ManagerIdle ==
    /\ kv = [key \in Keys |-> Nil]
    /\ zset = {}
    /\ clock = 0
    /\ minted = {}
    /\ runs = [r \in Runs |-> IdleRun]
    /\ deletes = [id \in RequestIds |-> NoDelete]
    /\ reply = NoReply
    /\ updates = <<>>
    /\ deleted = {}

\* A fresh run of one chat request.
FreshRun ==
    /\ pc = "chat"
    /\ messages = InitialMessages
    /\ ai_message = NoMessage
    /\ callIdx = 1
    /\ stream = <<>>
    /\ content_buffer = ""
    /\ tool_deltas = <<>>
    /\ received = <<>>
    /\ emitted = <<>>
    /\ result = None
    /\ failure = None
    /\ store = EmptyStore
    /\ gatewayCalls = 0
    /\ lastRequest = NoRequest
    /\ issued = 0
    /\ invoked = <<>>

Init ==
    /\ listing \in Listings
    /\ tools = lifespan(listing).tools
    /\ tool_name_client_map = lifespan(listing).map
    /\ mode \in {"blocking", "streaming"}
    /\ style \in IF mode = "streaming" THEN Styles ELSE {"whole"}
    /\ FreshRun
    /\ script = <<>>
    /\ replay = FALSE
    /\ blockingEnd = NoEnd
    /\ ClientsConnected
    /\ ManagerIdle

\* SSE events: f"data: {json.dumps(...)}\n\n" and "data: [DONE]\n\n".
ConversationIdEvent == [event |-> "conversation_id", data |-> None]
ContentEvent(text) == [event |-> "content", data |-> text]
FinishEvent == [event |-> "finish", data |-> None]
DoneEvent == [event |-> "done", data |-> None]

\* ---------------------------------------------------------------- handlers
\* _non_stream_chat up to its await of dial_client.response.
NonStreamChat ==
    /\ pc = "chat" /\ mode = "blocking"
    /\ pc' = "request"
    /\ UNCHANGED <<manager, registry, mode, messages, ai_message, callIdx, streamVars, emitted,
                   result, failure, store, gatewayCalls, lastRequest, issued, invoked,
                   harness>>

\* _stream_chat: the conversation_id event, then stream_response is entered.
StreamChat ==
    /\ pc = "chat" /\ mode = "streaming"
    /\ emitted' = Append(emitted, ConversationIdEvent)
    /\ pc' = "request"
    /\ UNCHANGED <<manager, registry, mode, messages, ai_message, callIdx, streamVars,
                   result, failure, store, gatewayCalls, lastRequest, issued, invoked,
                   harness>>

\* tools=self.tools if self.tools else None
\* A tools argument that is always the list held, empty or not.
ToolsArg_AlwaysList(ts) == [is_none |-> FALSE, list |-> ts]

\* `tools=self.tools if self.tools else None`
ToolsArg(ts) ==
    IF ts /= <<>> THEN [is_none |-> FALSE, list |-> ts]
    ELSE [is_none |-> TRUE, list |-> <<>>]

\* Mutation of GatewayRequest: the request carries the caller's and the
\* assistant's turns only, the tool turns are left out.
GatewayRequest_WithoutToolTurns ==
    /\ pc = "request"
    /\ lastRequest' = [messages |-> WireMessages(SelectSeq(messages,
                                        LAMBDA m : m.role /= Role.TOOL)),
                       tools |-> ToolsArg(tools),
                       stream |-> (mode = "streaming")]
    /\ gatewayCalls' = gatewayCalls + 1
    /\ pc' = "await_completion"
    /\ UNCHANGED <<manager, registry, mode, messages, ai_message, callIdx, streamVars, emitted,
                   result, failure, store, issued, invoked, harness>>

\* await self.async_openai.chat.completions.create(...), both flavours.
GatewayRequest ==
    /\ pc = "request"
    /\ lastRequest' = [messages |-> WireMessages(messages),
                       tools |-> ToolsArg(tools),
                       stream |-> (mode = "streaming")]
    /\ gatewayCalls' = gatewayCalls + 1
    /\ pc' = "await_completion"
    /\ UNCHANGED <<manager, registry, mode, messages, ai_message, callIdx, streamVars, emitted,
                   result, failure, store, issued, invoked, harness>>

\* Mutation of GatewayFail: the failure is caught and answered with an
\* assistant turn instead of leaving the loop.
GatewayFail_Contained ==
    /\ pc \in {"await_completion", "streaming"}
    /\ ~replay
    /\ failure' = "GatewayError"
    /\ ai_message' = Message(Role.ASSISTANT, "Error: no response", None, None, <<>>)
    /\ messages' = Append(messages, ai_message')
    /\ pc' = "returned"
    /\ UNCHANGED <<manager, registry, mode, callIdx, streamVars, emitted, result, store,
                   gatewayCalls, lastRequest, issued, invoked, harness>>

\* The completion gateway fails (unreachable, malformed response): the
\* exception leaves response / stream_response.
GatewayFail ==
    /\ pc \in {"await_completion", "streaming"}
    /\ ~replay
    /\ failure' = "GatewayError"
    /\ pc' = "failed"
    /\ UNCHANGED <<manager, registry, mode, messages, ai_message, callIdx, streamVars, emitted,
                   result, store, gatewayCalls, lastRequest, issued, invoked, harness>>

\* The places where a run is suspended and its caller can abandon it:
\* awaiting the gateway, awaiting the next chunk of the stream (or the
\* consumer, at a yield), awaiting a tool result.
SuspensionPoints ==
    IF mode = "streaming"
    THEN {"await_completion", "streaming", "await_tool", "yield_done", "returned"}
    ELSE {"await_completion", "await_tool"}

\* The exception a run ends with when it is abandoned at a suspension point.
Cancelled(at) == "CancelledError@" \o at

\* The run is at a place, or was abandoned there.
At(place) == pc = place \/ failure = Cancelled(place)

\* The caller abandons the run (the task is cancelled, the consumer closes
\* the generator): the exception is raised at the suspension point and
\* leaves the handlers; no except clause and no finally block runs.
Abandon ==
    /\ pc \in SuspensionPoints
    /\ ~replay
    /\ failure' = Cancelled(pc)
    /\ pc' = "abandoned"
    /\ UNCHANGED <<manager, registry, mode, messages, ai_message, callIdx, streamVars, emitted,
                   result, store, gatewayCalls, lastRequest, issued, invoked, harness>>

\* The responses the gateway can give to the request in flight.
Offered == IF replay THEN {script[gatewayCalls]} ELSE Responses(issued)

\* Mutation of AssistantOf: the content is normalised (`content or ""`).
AssistantOf_ContentOrEmpty(resp) ==
    Message(Role.ASSISTANT, IF resp.content = None THEN "" ELSE resp.content,
            None, None, resp.tool_calls)

\* response(): ai_message built from response.choices[0].message.
AssistantOf(resp) == Message(Role.ASSISTANT, resp.content, None, None, resp.tool_calls)

\* A response() that appends the final assistant turn itself before it
\* returns it.
BlockingRespond_AppendsFinal ==
    /\ pc = "await_completion" /\ mode = "blocking"
    /\ \E resp \in Offered :
        /\ ai_message' = AssistantOf(resp)
        /\ issued' = issued + Len(resp.tool_calls)
        /\ script' = Append(script, resp)
        /\ messages' = Append(messages, ai_message')
        /\ IF ai_message'.tool_calls /= <<>>
           THEN /\ callIdx' = 1
                /\ pc' = "call_tools"
           ELSE /\ pc' = "returned"
                /\ UNCHANGED callIdx
    /\ UNCHANGED <<manager, registry, mode, streamVars, emitted, result, failure, store,
                   gatewayCalls, lastRequest, invoked, replay, blockingEnd, style>>

\* response() after the gateway answered.
BlockingRespond ==
    /\ pc = "await_completion" /\ mode = "blocking"
    /\ \E resp \in Offered :
        /\ ai_message' = AssistantOf(resp)
        /\ issued' = issued + Len(resp.tool_calls)
        /\ script' = Append(script, resp)
        /\ IF ai_message'.tool_calls /= <<>>
           THEN /\ messages' = Append(messages, ai_message')
                /\ callIdx' = 1
                /\ pc' = "call_tools"
           ELSE /\ pc' = "returned"
                /\ UNCHANGED <<messages, callIdx>>
    /\ UNCHANGED <<manager, registry, mode, streamVars, emitted, result, failure, store,
                   gatewayCalls, lastRequest, invoked, replay, blockingEnd, style>>

\* Mutation of StreamOpen: the content buffer of the round before is kept,
\* so the next assistant turn repeats the content of the earlier rounds.
StreamOpen_KeepsBuffer ==
    /\ pc = "await_completion" /\ mode = "streaming"
    /\ \E resp \in Offered :
        /\ stream' = Chunks(resp, style)
        /\ issued' = issued + Len(resp.tool_calls)
    /\ content_buffer' = content_buffer
    /\ tool_deltas' = <<>>
    /\ received' = Append(received, <<>>)
    /\ pc' = "streaming"
    /\ UNCHANGED <<manager, registry, mode, messages, ai_message, callIdx, emitted, result,
                   failure, store, gatewayCalls, lastRequest, invoked, harness>>

\* stream_response(): the stream is open, the buffers are empty.
StreamOpen ==
    /\ pc = "await_completion" /\ mode = "streaming"
    /\ \E resp \in Offered :
        /\ stream' = Chunks(resp, style)
        /\ issued' = issued + Len(resp.tool_calls)
    /\ content_buffer' = ""
    /\ tool_deltas' = <<>>
    /\ received' = Append(received, <<>>)
    /\ pc' = "streaming"
    /\ UNCHANGED <<manager, registry, mode, messages, ai_message, callIdx, emitted, result,
                   failure, store, gatewayCalls, lastRequest, invoked, harness>>

\* A loop body that keeps the assistant turn under construction in the
\* history: appended with the first content, rewritten with each later one.
StreamChunk_AppendsPartial ==
    /\ pc = "streaming" /\ stream /= <<>>
    /\ LET delta == Head(stream)
           partial == Message(Role.ASSISTANT, content_buffer \o delta.content,
                              None, None, <<>>)
       IN /\ IF Truthy(delta.content)
             THEN /\ emitted' = Append(emitted, ContentEvent(delta.content))
                  /\ content_buffer' = content_buffer \o delta.content
                  /\ messages' = IF content_buffer = "" THEN Append(messages, partial)
                                 ELSE [messages EXCEPT ![Len(messages)] = partial]
             ELSE UNCHANGED <<emitted, content_buffer, messages>>
          /\ tool_deltas' = tool_deltas \o delta.tool_calls
          /\ received' = [received EXCEPT ![Len(received)] = Append(@, delta.content)]
    /\ stream' = Tail(stream)
    /\ UNCHANGED <<manager, registry, mode, pc, ai_message, callIdx, result, failure,
                   store, gatewayCalls, lastRequest, issued, invoked, harness>>

\* A loop body that also forwards the tool-call fragments to the caller.
StreamChunk_ForwardFragments ==
    /\ pc = "streaming" /\ stream /= <<>>
    /\ LET delta == Head(stream)
           forwarded == IF delta.tool_calls = <<>> THEN <<>>
                        ELSE <<[event |-> "tool_call", data |-> None]>>
       IN /\ IF Truthy(delta.content)
             THEN /\ emitted' = Append(emitted, ContentEvent(delta.content)) \o forwarded
                  /\ content_buffer' = content_buffer \o delta.content
             ELSE /\ emitted' = emitted \o forwarded
                  /\ UNCHANGED content_buffer
          /\ tool_deltas' = tool_deltas \o delta.tool_calls
          /\ received' = [received EXCEPT ![Len(received)] = Append(@, delta.content)]
    /\ stream' = Tail(stream)
    /\ UNCHANGED <<manager, registry, mode, pc, messages, ai_message, callIdx, result, failure,
                   store, gatewayCalls, lastRequest, issued, invoked, harness>>

\* A loop body that keeps only the content of the latest chunk (= for +=).
StreamChunk_Overwrite ==
    /\ pc = "streaming" /\ stream /= <<>>
    /\ LET delta == Head(stream)
       IN /\ IF Truthy(delta.content)
             THEN /\ emitted' = Append(emitted, ContentEvent(delta.content))
                  /\ content_buffer' = delta.content
             ELSE UNCHANGED <<emitted, content_buffer>>
          /\ tool_deltas' = tool_deltas \o delta.tool_calls
          /\ received' = [received EXCEPT ![Len(received)] = Append(@, delta.content)]
    /\ stream' = Tail(stream)
    /\ UNCHANGED <<manager, registry, mode, pc, messages, ai_message, callIdx, result, failure,
                   store, gatewayCalls, lastRequest, issued, invoked, harness>>

\* A loop body that buffers the content of a chunk without yielding it.
StreamChunk_HoldBack ==
    /\ pc = "streaming" /\ stream /= <<>>
    /\ LET delta == Head(stream)
       IN /\ IF Truthy(delta.content)
             THEN content_buffer' = content_buffer \o delta.content
             ELSE UNCHANGED content_buffer
          /\ tool_deltas' = tool_deltas \o delta.tool_calls
          /\ received' = [received EXCEPT ![Len(received)] = Append(@, delta.content)]
    /\ stream' = Tail(stream)
    /\ UNCHANGED <<manager, registry, mode, pc, messages, ai_message, callIdx, emitted, result,
                   failure, store, gatewayCalls, lastRequest, issued, invoked, harness>>

\* One pass of `async for chunk in stream`.
StreamChunk ==
    /\ pc = "streaming" /\ stream /= <<>>
    /\ LET delta == Head(stream)
       IN /\ IF Truthy(delta.content)
             THEN /\ emitted' = Append(emitted, ContentEvent(delta.content))
                  /\ content_buffer' = content_buffer \o delta.content
             ELSE UNCHANGED <<emitted, content_buffer>>
          /\ tool_deltas' = tool_deltas \o delta.tool_calls
          /\ received' = [received EXCEPT ![Len(received)] = Append(@, delta.content)]
    /\ stream' = Tail(stream)
    /\ UNCHANGED <<manager, registry, mode, pc, messages, ai_message, callIdx, result, failure,
                   store, gatewayCalls, lastRequest, issued, invoked, harness>>

\* An end of round that yields the finish chunk in tool rounds as well.
StreamEnd_FinishEveryRound ==
    /\ pc = "streaming" /\ stream = <<>>
    /\ IF tool_deltas /= <<>>
       THEN /\ ai_message' = Message(Role.ASSISTANT, content_buffer, None, None,
                                     collect_tool_calls(tool_deltas))
            /\ messages' = Append(messages, ai_message')
            /\ emitted' = Append(emitted, FinishEvent)
            /\ callIdx' = 1
            /\ pc' = "call_tools"
       ELSE /\ ai_message' = Message(Role.ASSISTANT, content_buffer, None, None, <<>>)
            /\ messages' = Append(messages, ai_message')
            /\ pc' = "yield_finish"
            /\ UNCHANGED <<callIdx, emitted>>
    /\ UNCHANGED <<manager, registry, mode, streamVars, result, failure, store,
                   gatewayCalls, lastRequest, issued, invoked, harness>>

\* stream_response() once the stream is exhausted.
StreamEnd ==
    /\ pc = "streaming" /\ stream = <<>>
    /\ IF tool_deltas /= <<>>
       THEN /\ ai_message' = Message(Role.ASSISTANT, content_buffer, None, None,
                                     collect_tool_calls(tool_deltas))
            /\ messages' = Append(messages, ai_message')
            /\ callIdx' = 1
            /\ pc' = "call_tools"
       ELSE /\ ai_message' = Message(Role.ASSISTANT, content_buffer, None, None, <<>>)
            /\ messages' = Append(messages, ai_message')
            /\ pc' = "yield_finish"
            /\ UNCHANGED callIdx
    /\ UNCHANGED <<manager, registry, mode, streamVars, emitted, result, failure, store,
                   gatewayCalls, lastRequest, issued, invoked, harness>>

\* yield of the final chunk (finish_reason "stop").
YieldFinish ==
    /\ pc = "yield_finish"
    /\ emitted' = Append(emitted, FinishEvent)
    /\ pc' = "yield_done"
    /\ UNCHANGED <<manager, registry, mode, messages, ai_message, callIdx, streamVars, result,
                   failure, store, gatewayCalls, lastRequest, issued, invoked, harness>>

\* yield "data: [DONE]\n\n"
YieldDone ==
    /\ pc = "yield_done"
    /\ emitted' = Append(emitted, DoneEvent)
    /\ pc' = "returned"
    /\ UNCHANGED <<manager, registry, mode, messages, ai_message, callIdx, streamVars, result,
                   failure, store, gatewayCalls, lastRequest, issued, invoked, harness>>

\* ---------------------------------------------------------------- tool invoker
\* The three tool messages _call_tools can append for one tool_call.
NotFoundMessage(tool_call) ==
    Message(Role.TOOL,
            "Error: Tool '" \o PyStr(tool_call.function.name) \o "' not found",
            tool_call.id, tool_call.function.name, <<>>)

\* A result turn that does not carry the id of the call it answers.
ResultMessage_NoCallId(tool_call, value) ==
    Message(Role.TOOL, PyStr(value), None, tool_call.function.name, <<>>)

ResultMessage(tool_call, value) ==
    Message(Role.TOOL, PyStr(value), tool_call.id, tool_call.function.name, <<>>)

\* Mutation of ErrorMessage: the except branch passes the bare exception
\* text on, as if it were a result.
ErrorMessage_AsResult(tool_call, e) ==
    Message(Role.TOOL, PyStr(e), tool_call.id, tool_call.function.name, <<>>)

ErrorMessage(tool_call, e) ==
    Message(Role.TOOL, "Error executing tool: " \o PyStr(e),
            tool_call.id, tool_call.function.name, <<>>)

\* Where _call_tools goes after the tool_call at position i of n: the next
\* iteration, or back to response / stream_response, which recurses.
AfterCall(i, n) == IF i < n THEN "call_tools" ELSE "request"

\* An invoker that starts all the calls of the batch at once (a gather):
\* with the call it is at, it starts the invocation of every later call of
\* the batch whose name resolves.
CallTools_StartsAll ==
    /\ pc = "call_tools"
    /\ LET tool_call == ai_message.tool_calls[callIdx]
           tool_name == tool_call.function.name
           tool_args == JsonLoads(tool_call.function.arguments)
           mcp_client == MapGet(tool_name_client_map, tool_name)
           later == SelectSeq(SubSeq(ai_message.tool_calls, callIdx + 1,
                                     Len(ai_message.tool_calls)),
                              LAMBDA tc : MapGet(tool_name_client_map,
                                                 tc.function.name) /= None)
       IN IF ~tool_args.ok
          THEN /\ failure' = tool_args.value
               /\ pc' = "failed"
               /\ UNCHANGED <<messages, callIdx, invoked>>
          ELSE IF mcp_client = None
          THEN /\ messages' = Append(messages, NotFoundMessage(tool_call))
               /\ callIdx' = callIdx + 1
               /\ pc' = AfterCall(callIdx, Len(ai_message.tool_calls))
               /\ UNCHANGED <<failure, invoked>>
          ELSE /\ invoked' = Append(invoked, [client |-> mcp_client, name |-> tool_name,
                                              id |-> tool_call.id])
                             \o [k \in 1..Len(later) |->
                                    [client |-> MapGet(tool_name_client_map,
                                                       later[k].function.name),
                                     name |-> later[k].function.name,
                                     id |-> later[k].id]]
               /\ pc' = "await_tool"
               /\ UNCHANGED <<messages, callIdx, failure>>
    /\ UNCHANGED <<manager, registry, mode, ai_message, streamVars, emitted, result, store,
                   gatewayCalls, lastRequest, issued, harness>>

\* A lookup that records the name it did not find in the map.
CallTools_RecordsMiss ==
    /\ pc = "call_tools"
    /\ LET tool_call == ai_message.tool_calls[callIdx]
           tool_name == tool_call.function.name
           tool_args == JsonLoads(tool_call.function.arguments)
           mcp_client == MapGet(tool_name_client_map, tool_name)
       IN IF ~tool_args.ok
          THEN /\ failure' = tool_args.value
               /\ pc' = "failed"
               /\ UNCHANGED <<messages, callIdx, invoked, tool_name_client_map>>
          ELSE IF mcp_client = None
          THEN /\ messages' = Append(messages, NotFoundMessage(tool_call))
               /\ callIdx' = callIdx + 1
               /\ pc' = AfterCall(callIdx, Len(ai_message.tool_calls))
               /\ tool_name_client_map' = tool_name_client_map \cup {<<tool_name, None>>}
               /\ UNCHANGED <<failure, invoked>>
          ELSE /\ invoked' = Append(invoked, [client |-> mcp_client, name |-> tool_name,
                                              id |-> tool_call.id])
               /\ pc' = "await_tool"
               /\ UNCHANGED <<messages, callIdx, failure, tool_name_client_map>>
    /\ UNCHANGED <<manager, mcp, tools, listing, mode, ai_message, streamVars, emitted, result, store,
                   gatewayCalls, lastRequest, issued, harness>>

\* One iteration of `for tool_call in ai_message.tool_calls`, up to its
\* await of call_tool: json.loads, the map lookup, the unknown-tool branch.
CallTools ==
    /\ pc = "call_tools"
    /\ LET tool_call == ai_message.tool_calls[callIdx]
           tool_name == tool_call.function.name
           tool_args == JsonLoads(tool_call.function.arguments)
           mcp_client == MapGet(tool_name_client_map, tool_name)
       IN IF ~tool_args.ok
          THEN /\ failure' = tool_args.value
               /\ pc' = "failed"
               /\ UNCHANGED <<messages, callIdx, invoked>>
          ELSE IF mcp_client = None
          THEN /\ messages' = Append(messages, NotFoundMessage(tool_call))
               /\ callIdx' = callIdx + 1
               /\ pc' = AfterCall(callIdx, Len(ai_message.tool_calls))
               /\ UNCHANGED <<failure, invoked>>
          ELSE /\ invoked' = Append(invoked, [client |-> mcp_client, name |-> tool_name,
                                              id |-> tool_call.id])
               /\ pc' = "await_tool"
               /\ UNCHANGED <<messages, callIdx, failure>>
    /\ UNCHANGED <<manager, registry, mode, ai_message, streamVars, emitted, result, store,
                   gatewayCalls, lastRequest, issued, harness>>

\* A tool turn that is written over the last turn of the history instead of
\* being appended after it.
ToolReturn_ReplaceLast ==
    /\ pc = "await_tool"
    /\ LET tool_call == ai_message.tool_calls[callIdx]
           tool_name == tool_call.function.name
           outcome == call_tool(MapGet(tool_name_client_map, tool_name), tool_name,
                                JsonLoads(tool_call.function.arguments).value)
       IN messages' = [messages EXCEPT ![Len(messages)] =
                             IF outcome.ok THEN ResultMessage(tool_call, outcome.value)
                             ELSE ErrorMessage(tool_call, outcome.value)]
    /\ callIdx' = callIdx + 1
    /\ pc' = AfterCall(callIdx, Len(ai_message.tool_calls))
    /\ UNCHANGED <<manager, registry, mode, ai_message, streamVars, emitted, result, failure,
                   store, gatewayCalls, lastRequest, issued, invoked, harness>>

\* call_tool returned or raised: the try / except of _call_tools.
ToolReturn ==
    /\ pc = "await_tool"
    /\ LET tool_call == ai_message.tool_calls[callIdx]
           tool_name == tool_call.function.name
           outcome == call_tool(MapGet(tool_name_client_map, tool_name), tool_name,
                                JsonLoads(tool_call.function.arguments).value)
       IN messages' = Append(messages,
                             IF outcome.ok THEN ResultMessage(tool_call, outcome.value)
                             ELSE ErrorMessage(tool_call, outcome.value))
    /\ callIdx' = callIdx + 1
    /\ pc' = AfterCall(callIdx, Len(ai_message.tool_calls))
    /\ UNCHANGED <<manager, registry, mode, ai_message, streamVars, emitted, result, failure,
                   store, gatewayCalls, lastRequest, issued, invoked, harness>>

\* ---------------------------------------------------------------- persistence
\* _save_conversation_messages: msg.model_dump() keeps every field.
SaveMessages(st, msgs) == [messages |-> msgs, saves |-> st.saves + 1]

\* _non_stream_chat after response() returned.
NonStreamFinish ==
    /\ pc = "returned" /\ mode = "blocking"
    /\ messages' = Append(messages, ai_message)
    /\ store' = SaveMessages(store, messages')
    /\ result' = IF Truthy(ai_message.content) THEN ai_message.content ELSE ""
    /\ pc' = "done"
    /\ UNCHANGED <<manager, registry, mode, ai_message, callIdx, streamVars, emitted, failure,
                   gatewayCalls, lastRequest, issued, invoked, harness>>

\* _stream_chat after stream_response() is exhausted.
StreamFinish ==
    /\ pc = "returned" /\ mode = "streaming"
    /\ store' = SaveMessages(store, messages)
    /\ pc' = "done"
    /\ UNCHANGED <<manager, registry, mode, messages, ai_message, callIdx, streamVars, emitted,
                   result, failure, gatewayCalls, lastRequest, issued, invoked, harness>>

\* ---------------------------------------------------------------- replay
\* The same conversation is asked again in streaming mode: the gateway gives
\* the responses of the blocking run, cut into a stream.
Replay ==
    /\ pc = "done" /\ mode = "blocking" /\ ~replay
    /\ blockingEnd' = [messages |-> messages, content |-> result]
    /\ replay' = TRUE
    /\ style' \in FaithfulStyles
    /\ mode' = "streaming"
    /\ pc' = "chat"
    /\ messages' = InitialMessages
    /\ ai_message' = NoMessage
    /\ callIdx' = 1
    /\ stream' = <<>>
    /\ content_buffer' = ""
    /\ tool_deltas' = <<>>
    /\ received' = <<>>
    /\ emitted' = <<>>
    /\ result' = None
    /\ failure' = None
    /\ store' = EmptyStore
    /\ gatewayCalls' = 0
    /\ lastRequest' = NoRequest
    /\ issued' = 0
    /\ invoked' = <<>>
    /\ UNCHANGED <<manager, registry, script>>

Next ==
    \/ NonStreamChat
    \/ StreamChat
    \/ GatewayRequest
    \/ GatewayFail
    \/ Abandon
    \/ BlockingRespond
    \/ StreamOpen
    \/ StreamChunk
    \/ StreamEnd
    \/ YieldFinish
    \/ YieldDone
    \/ CallTools
    \/ ToolReturn
    \/ NonStreamFinish
    \/ StreamFinish
    \/ Replay

Spec == Init /\ [][Next]_vars

\* ------------------------------------------- the conversation manager
\* The endpoints of app.py over the ConversationManager. Every store
\* handler is one step, except delete_conversation and the save of a chat
\* handler, which are one step per Redis command. Requests follow the
\* scheduling model of the system: one flow per conversation at a time,
\* any number of flows for different conversations.

\* The ids a client can name: those it was given, and one that never existed.
KnownIds == minted \cup {UnknownId}

InFlightRun(r) == runs[r].pc \notin {"idle", "left"}

\* No chat and no delete is in flight for the conversation.
Free(conversation_id) ==
    /\ ~deletes[conversation_id].pending
    /\ \A r \in Runs : InFlightRun(r) => runs[r].conv /= conversation_id

\* The order of latest updates once the conversation has been updated.
Touched(order, conversation_id) ==
    Append(SelectSeq(order, LAMBDA id : id /= conversation_id), conversation_id)

\* POST /conversations and create_conversation.
CreateConversation ==
    \E request_title \in {None} :
        LET conversation_id == uuid4(minted)
            title == IF Truthy(request_title) THEN request_title ELSE "New Conversation"
            created_at == isoformat(Now(clock))
            conversation == [id |-> conversation_id, title |-> title, messages |-> <<>>,
                             created_at |-> created_at, updated_at |-> created_at]
            score == timestamp(Now(Now(clock)))
        IN /\ minted /= ConversationIds
           /\ minted' = minted \cup {conversation_id}
           /\ kv' = RedisSet(kv, ConversationKey(conversation_id), json_dumps(conversation))
           /\ zset' = RedisZadd(zset, conversation_id, score)
           /\ clock' = Now(Now(clock))
           /\ updates' = Touched(updates, conversation_id)
           /\ reply' = [op |-> "create", id |-> conversation_id, status |-> 200,
                        error |-> None,
                        body |-> [NoBody EXCEPT !.conversation = conversation]]
           /\ UNCHANGED <<dial, runs, deletes, deleted>>

\* GET /conversations and list_conversations.
ListConversations ==
    /\ LET conversation_ids == RedisZrevrange(zset)
           conversations == Summaries(conversation_ids, kv)
       IN reply' = [op |-> "list", id |-> None, status |-> 200, error |-> None,
                    body |-> [NoBody EXCEPT !.conversations = conversations]]
    /\ UNCHANGED <<dial, kv, zset, clock, minted, runs, deletes, updates, deleted>>

\* GET /conversations/{id} and get_conversation.
GetConversation ==
    \E conversation_id \in KnownIds :
        /\ LET conv_data == RedisGet(kv, ConversationKey(conversation_id))
           IN reply' = IF conv_data = Nil
                       THEN [op |-> "get", id |-> conversation_id, status |-> 404,
                             error |-> "HTTPException",
                             body |-> [NoBody EXCEPT !.detail = "Conversation not found"]]
                       ELSE [op |-> "get", id |-> conversation_id, status |-> 200,
                             error |-> None,
                             body |-> [NoBody EXCEPT
                                          !.conversation = json_loads(conv_data).value]]
        /\ UNCHANGED <<dial, kv, zset, clock, minted, runs, deletes, updates, deleted>>

\* delete_conversation up to its second await: redis.delete of the key.
\* The id is one the client was given; it is absent when the conversation
\* has been deleted before.
DeleteKey ==
    \E conversation_id \in minted :
        /\ Free(conversation_id)
        /\ LET removal == RedisDelete(kv, ConversationKey(conversation_id))
           IN /\ kv' = removal.db
              /\ deletes' = [deletes EXCEPT ![conversation_id] =
                                 [pending |-> TRUE, deleted_count |-> removal.count]]
        /\ reply' = NoReply
        /\ UNCHANGED <<dial, zset, clock, minted, runs, updates, deleted>>

\* A delete that leaves the id in the sorted set.
DeleteIndex_KeepsIndexEntry ==
    \E conversation_id \in RequestIds :
        /\ deletes[conversation_id].pending
        /\ deletes' = [deletes EXCEPT ![conversation_id] = NoDelete]
        /\ deleted' = IF deletes[conversation_id].deleted_count > 0
                      THEN deleted \cup {conversation_id}
                      ELSE deleted
        /\ updates' = SelectSeq(updates, LAMBDA id : id /= conversation_id)
        /\ reply' = IF deletes[conversation_id].deleted_count > 0
                    THEN [op |-> "delete", id |-> conversation_id, status |-> 200,
                          error |-> None,
                          body |-> [NoBody EXCEPT
                                       !.detail = "Conversation deleted successfully"]]
                    ELSE [op |-> "delete", id |-> conversation_id, status |-> 404,
                          error |-> "HTTPException",
                          body |-> [NoBody EXCEPT !.detail = "Conversation not found"]]
        /\ UNCHANGED <<dial, kv, zset, clock, minted, runs>>

\* The rest of delete_conversation and of DELETE /conversations/{id}:
\* redis.zrem, return deleted_count > 0, 404 if that is False.
DeleteIndex ==
    \E conversation_id \in RequestIds :
        /\ deletes[conversation_id].pending
        /\ zset' = RedisZrem(zset, conversation_id)
        /\ deletes' = [deletes EXCEPT ![conversation_id] = NoDelete]
        /\ deleted' = IF deletes[conversation_id].deleted_count > 0
                      THEN deleted \cup {conversation_id}
                      ELSE deleted
        /\ updates' = SelectSeq(updates, LAMBDA id : id /= conversation_id)
        /\ reply' = IF deletes[conversation_id].deleted_count > 0
                    THEN [op |-> "delete", id |-> conversation_id, status |-> 200,
                          error |-> None,
                          body |-> [NoBody EXCEPT
                                       !.detail = "Conversation deleted successfully"]]
                    ELSE [op |-> "delete", id |-> conversation_id, status |-> 404,
                          error |-> "HTTPException",
                          body |-> [NoBody EXCEPT !.detail = "Conversation not found"]]
        /\ UNCHANGED <<dial, kv, clock, minted, runs>>

\* POST /conversations/{id}/chat and ConversationManager.chat: whatever
\* the message and the stream flag, the body of chat is
\* `raise NotImplementedError()`, which the endpoint's `except Exception`
\* answers with 500 and str(e), the empty text.
Chat ==
    \E conversation_id \in KnownIds :
        /\ reply' = [op |-> "chat", id |-> conversation_id, status |-> 500,
                     error |-> "NotImplementedError",
                     body |-> [NoBody EXCEPT !.detail = ""]]
        /\ UNCHANGED <<dial, kv, zset, clock, minted, runs, deletes, updates, deleted>>

\* The texts of the turns of one chat request.
Question(r) == "question " \o ToString(r)
Answer(r) == "answer " \o ToString(r)
ToolText(r) == "result " \o ToString(r)

UserMessage(r) == Message(Role.USER, Question(r), None, None, <<>>)

\* What the orchestration loop appends to the history of request r when
\* the gateway asks for one tool first: the assistant turn with the call
\* and the tool turn that answers it.
ToolRound(r) ==
    LET tool_call == ToolCall(CallId(r), "get_user", ArgsOk)
    IN <<Message(Role.ASSISTANT, None, None, None, <<tool_call>>),
         Message(Role.TOOL, ToolText(r), tool_call.id, "get_user", <<>>)>>

ConversationEvent(conversation_id) == [event |-> "conversation_id", data |-> conversation_id]

\* The streaming handler of request r yields events to its consumer.
Yielded(r, events) ==
    [op |-> "yield", id |-> r, status |-> 200, error |-> None,
     body |-> [NoBody EXCEPT !.events = events]]

\* The handler of request r is left by an exception.
Raised(r, error) ==
    [op |-> "raise", id |-> r, status |-> 500, error |-> error, body |-> NoBody]

\* The lowest request number not used yet.
NextRun == CHOOSE r \in Runs : runs[r].pc = "idle" /\ \A q \in 1..(r - 1) : runs[q].pc /= "idle"

\* _stream_chat / _non_stream_chat is entered for an existing conversation
\* with a history that ends with the user message; the streaming handler
\* yields the conversation_id event first.
EnterHandler ==
    \E conversation_id \in minted, stream_flag \in BOOLEAN :
        /\ \E r \in Runs : runs[r].pc = "idle"
        /\ RedisGet(kv, ConversationKey(conversation_id)) /= Nil
        /\ Free(conversation_id)
        /\ runs' = [runs EXCEPT ![NextRun] =
                       [IdleRun EXCEPT !.conv = conversation_id, !.stream = stream_flag,
                                       !.pc = "loop",
                                       !.messages = <<UserMessage(NextRun)>>]]
        /\ reply' = IF stream_flag
                    THEN Yielded(NextRun, <<ConversationEvent(conversation_id)>>)
                    ELSE NoReply
        /\ UNCHANGED <<dial, kv, zset, clock, minted, deletes, updates, deleted>>

\* The handler of request r has returned or raised: its locals are gone.
Left(r) == [IdleRun EXCEPT !.conv = runs[r].conv, !.pc = "left"]

\* A loop that appends its turns to one history shared by the handlers.
LoopReturn_SharedHistory ==
    \E r \in Runs, outcome \in {"answer", "tools"} :
        /\ runs[r].pc = "loop"
        /\ LET ai_turn == Message(Role.ASSISTANT, Answer(r), None, None, <<>>)
               turns == (IF outcome = "tools" THEN ToolRound(r) ELSE <<>>) \o <<ai_turn>>
           IN runs' = [q \in Runs |->
                          IF q = r
                          THEN [runs[q] EXCEPT !.messages = @ \o turns, !.pc = "save_get"]
                          ELSE IF runs[q].pc = "loop"
                          THEN [runs[q] EXCEPT !.messages = @ \o turns]
                          ELSE runs[q]]
        /\ reply' = IF runs[r].stream
                    THEN Yielded(r, <<ContentEvent(Answer(r)), FinishEvent, DoneEvent>>)
                    ELSE NoReply
        /\ UNCHANGED <<dial, kv, zset, clock, minted, deletes, updates, deleted>>

\* dial_client.response(messages) returned, or stream_response(messages)
\* is exhausted: the loop has appended its turns to the list of this
\* request; _non_stream_chat appends the returned message itself.
LoopReturn ==
    \E r \in Runs, outcome \in {"answer", "tools"} :
        /\ runs[r].pc = "loop"
        /\ LET ai_turn == Message(Role.ASSISTANT, Answer(r), None, None, <<>>)
               turns == (IF outcome = "tools" THEN ToolRound(r) ELSE <<>>) \o <<ai_turn>>
           IN runs' = [runs EXCEPT ![r].messages = @ \o turns, ![r].pc = "save_get"]
        /\ reply' = IF runs[r].stream
                    THEN Yielded(r, <<ContentEvent(Answer(r)), FinishEvent, DoneEvent>>)
                    ELSE NoReply
        /\ UNCHANGED <<dial, kv, zset, clock, minted, deletes, updates, deleted>>

\* Mutation of LoopRaise: the handler writes the history it holds, user
\* message included, before the exception leaves it.
LoopRaise_SavesHistory ==
    \E r \in Runs :
        /\ runs[r].pc = "loop"
        /\ kv' = RedisSet(kv, ConversationKey(runs[r].conv),
                          json_dumps([json_loads(RedisGet(kv, ConversationKey(runs[r].conv))).value
                                        EXCEPT !.messages =
                                            [q \in 1..Len(runs[r].messages) |->
                                                model_dump(runs[r].messages[q])]]))
        /\ runs' = [runs EXCEPT ![r] = Left(r)]
        /\ reply' = Raised(r, "Exception")
        /\ UNCHANGED <<dial, zset, clock, minted, deletes, updates, deleted>>

\* The loop raised (the gateway failed, or arguments did not parse): the
\* handler is left by the exception and saves nothing.
LoopRaise ==
    \E r \in Runs :
        /\ runs[r].pc = "loop"
        /\ runs' = [runs EXCEPT ![r] = Left(r)]
        /\ reply' = Raised(r, "Exception")
        /\ UNCHANGED <<dial, kv, zset, clock, minted, deletes, updates, deleted>>

\* The consumer of a streaming handler stops reading (the client went
\* away): the generator is closed at the yield it is suspended at, the
\* last one included, and the statements after its loop never run.
Closed(r) ==
    [op |-> "close", id |-> r, status |-> 200, error |-> "GeneratorExit", body |-> NoBody]

ConsumerStops ==
    \E r \in Runs :
        /\ runs[r].pc = "loop"
        /\ runs[r].stream
        /\ runs' = [runs EXCEPT ![r] = Left(r)]
        /\ reply' = Closed(r)
        /\ UNCHANGED <<dial, kv, zset, clock, minted, deletes, updates, deleted>>

\* _save_conversation_messages: redis.get, json.loads, the new messages
\* and updated_at.
SaveGet ==
    \E r \in Runs :
        /\ runs[r].pc = "save_get"
        /\ LET conv_data == RedisGet(kv, ConversationKey(runs[r].conv))
               loaded == json_loads(conv_data)
           IN IF ~loaded.ok
              THEN /\ runs' = [runs EXCEPT ![r] = Left(r)]
                   /\ UNCHANGED clock
              ELSE /\ runs' = [runs EXCEPT
                                  ![r].conversation =
                                      [loaded.value EXCEPT
                                          !.messages = [q \in 1..Len(runs[r].messages) |->
                                                           model_dump(runs[r].messages[q])],
                                          !.updated_at = isoformat(Now(clock))],
                                  ![r].pc = "save_set"]
                   /\ clock' = Now(clock)
        /\ reply' = IF json_loads(RedisGet(kv, ConversationKey(runs[r].conv))).ok
                    THEN NoReply
                    ELSE Raised(r, "TypeError")
        /\ UNCHANGED <<dial, kv, zset, minted, deletes, updates, deleted>>

\* _save_conversation: redis.set of the conversation under its id.
SaveSet ==
    \E r \in Runs :
        /\ runs[r].pc = "save_set"
        /\ kv' = RedisSet(kv, ConversationKey(runs[r].conversation.id),
                          json_dumps(runs[r].conversation))
        /\ runs' = [runs EXCEPT ![r].pc = "save_zadd"]
        /\ reply' = NoReply
        /\ UNCHANGED <<dial, zset, clock, minted, deletes, updates, deleted>>

\* A save that writes the conversation and leaves its score as it was.
SaveZadd_KeepsScore ==
    \E r \in Runs :
        /\ runs[r].pc = "save_zadd"
        /\ clock' = Now(clock)
        /\ updates' = Touched(updates, runs[r].conversation.id)
        /\ runs' = [runs EXCEPT ![r] = Left(r)]
        /\ reply' = IF runs[r].stream THEN Yielded(r, <<>>)
                    ELSE LET final == runs[r].messages[Len(runs[r].messages)]
                         IN [op |-> "return", id |-> runs[r].conv, status |-> 200,
                             error |-> None,
                             body |-> [NoBody EXCEPT
                                          !.detail = IF Truthy(final.content)
                                                     THEN final.content ELSE ""]]
        /\ UNCHANGED <<dial, kv, zset, minted, deletes, deleted>>

\* _save_conversation: redis.zadd with the score of now; the handler
\* returns (the blocking one its content and conversation_id).
SaveZadd ==
    \E r \in Runs :
        /\ runs[r].pc = "save_zadd"
        /\ zset' = RedisZadd(zset, runs[r].conversation.id, timestamp(Now(clock)))
        /\ clock' = Now(clock)
        /\ updates' = Touched(updates, runs[r].conversation.id)
        /\ runs' = [runs EXCEPT ![r] = Left(r)]
        /\ reply' = IF runs[r].stream THEN Yielded(r, <<>>)
                    ELSE LET final == runs[r].messages[Len(runs[r].messages)]
                         IN [op |-> "return", id |-> runs[r].conv, status |-> 200,
                             error |-> None,
                             body |-> [NoBody EXCEPT
                                          !.detail = IF Truthy(final.content)
                                                     THEN final.content ELSE ""]]
        /\ UNCHANGED <<dial, kv, minted, deletes, deleted>>

ManagerInit ==
    /\ listing = "standard"
    /\ tools = lifespan(listing).tools
    /\ tool_name_client_map = lifespan(listing).map
    /\ mode = "blocking"
    /\ style = "whole"
    /\ FreshRun
    /\ script = <<>>
    /\ replay = FALSE
    /\ blockingEnd = NoEnd
    /\ ClientsConnected
    /\ ManagerIdle

ManagerNext ==
    \/ CreateConversation
    \/ ListConversations
    \/ GetConversation
    \/ DeleteKey
    \/ DeleteIndex
    \/ Chat
    \/ EnterHandler
    \/ LoopReturn
    \/ LoopRaise
    \/ ConsumerStops
    \/ SaveGet
    \/ SaveSet
    \/ SaveZadd

ManagerSpec == ManagerInit /\ [][ManagerNext]_vars

\* ---------------------------------------------------------------- delete during a chat
\* delete_conversation up to its second await, called while a handler for
\* the same conversation is in flight: nothing in the manager keeps the
\* two apart.
DeleteKeyInFlight ==
    \E r \in Runs :
        LET conversation_id == runs[r].conv
        IN /\ InFlightRun(r)
           /\ ~deletes[conversation_id].pending
           /\ LET removal == RedisDelete(kv, ConversationKey(conversation_id))
              IN /\ kv' = removal.db
                 /\ deletes' = [deletes EXCEPT ![conversation_id] =
                                    [pending |-> TRUE, deleted_count |-> removal.count]]
           /\ reply' = NoReply
           /\ UNCHANGED <<dial, zset, clock, minted, runs, updates, deleted>>

\* The manager when its callers do not keep to one flow per conversation.
RaceNext ==
    \/ ManagerNext
    \/ DeleteKeyInFlight

RaceSpec == ManagerInit /\ [][RaceNext]_vars

\* ---------------------------------------------------------------- MCP client steps
\* The tool names and arguments a caller may hand to call_tool.
CallNames == {"get_user", "delete_user"}

\* Mutation of NotConnected: the guard never finds the client unconnected.
NotConnected_Never(current_session) == FALSE

\* `if not self.session:` of get_tools and call_tool.
NotConnected(current_session) == current_session = None

\* `raise RuntimeError("MCP client is not connected to MCP server")`
NotConnectedError(client, op) ==
    [client |-> client, op |-> op, error |-> "RuntimeError", tools |-> <<>>, text |-> None]

\* cls(...): __init__ leaves self.session None.
ClientConstruct(client) ==
    /\ connect_pc[client] = "unborn"
    /\ connect_pc' = [connect_pc EXCEPT ![client] = "constructed"]
    /\ session' = [session EXCEPT ![client] = None]
    /\ mcp_reply' = NoMcpReply
    /\ UNCHANGED <<manager, tools, tool_name_client_map, listing, loop, requests>>

\* connect(): the transport context (streamablehttp_client / stdio_client)
\* is entered; it may fail, and connect() then raises with no session set.
ConnectStreams(client) ==
    /\ connect_pc[client] = "constructed"
    /\ \E entered \in BOOLEAN :
          connect_pc' = [connect_pc EXCEPT ![client] = IF entered THEN "streams" ELSE "failed"]
    /\ mcp_reply' = NoMcpReply
    /\ UNCHANGED <<manager, tools, tool_name_client_map, listing, loop, session, requests>>

\* connect(): self.session = await self._session_context.__aenter__()
ConnectSession(client) ==
    /\ connect_pc[client] = "streams"
    /\ session' = [session EXCEPT ![client] = ClientSession]
    /\ connect_pc' = [connect_pc EXCEPT ![client] = "handshake"]
    /\ mcp_reply' = NoMcpReply
    /\ UNCHANGED <<manager, tools, tool_name_client_map, listing, loop, requests>>

\* connect(): await self.session.initialize(); when it returns, connect()
\* and create() return the instance; when it fails, they raise.
ConnectInitialize(client) ==
    /\ connect_pc[client] = "handshake"
    /\ requests' = requests \cup {<<client, "initialize">>}
    /\ \E answered \in BOOLEAN :
          connect_pc' = [connect_pc EXCEPT
                            ![client] = IF answered THEN "connected" ELSE "failed"]
    /\ mcp_reply' = NoMcpReply
    /\ UNCHANGED <<manager, tools, tool_name_client_map, listing, loop, session>>

\* get_tools() of an instance, however far its connection has got.
ClientGetTools(client) ==
    /\ connect_pc[client] /= "unborn"
    /\ IF NotConnected(session[client])
       THEN /\ mcp_reply' = NotConnectedError(client, "get_tools")
            /\ UNCHANGED requests
       ELSE /\ requests' = requests \cup {<<client, "list_tools">>}
            /\ mcp_reply' = [client |-> client, op |-> "get_tools", error |-> None,
                             tools |-> get_tools(listing, client), text |-> None]
    /\ UNCHANGED <<manager, tools, tool_name_client_map, listing, loop, session, connect_pc>>

\* call_tool(tool_name, tool_args) of an instance.
ClientCallTool(client) ==
    /\ connect_pc[client] /= "unborn"
    /\ \E tool_name \in CallNames :
          IF NotConnected(session[client])
          THEN /\ mcp_reply' = NotConnectedError(client, "call_tool")
               /\ UNCHANGED requests
          ELSE LET outcome == call_tool(client, tool_name, ArgsOk)
               IN /\ requests' = requests \cup {<<client, "call_tool">>}
                  /\ mcp_reply' = [client |-> client, op |-> "call_tool",
                                   error |-> IF outcome.ok THEN None ELSE "McpError",
                                   tools |-> <<>>, text |-> outcome.value]
    /\ UNCHANGED <<manager, tools, tool_name_client_map, listing, loop, session, connect_pc>>

\* No client has been constructed, no registry has been built.
McpInit ==
    /\ listing = "standard"
    /\ tools = <<>>
    /\ tool_name_client_map = {}
    /\ session = [c \in ClientNames |-> None]
    /\ connect_pc = [c \in ClientNames |-> "unborn"]
    /\ requests = {}
    /\ mcp_reply = NoMcpReply
    /\ mode = "blocking"
    /\ style = "whole"
    /\ FreshRun
    /\ script = <<>>
    /\ replay = FALSE
    /\ blockingEnd = NoEnd
    /\ ManagerIdle

McpNext ==
    \E client \in ClientNames :
        \/ ClientConstruct(client)
        \/ ConnectStreams(client)
        \/ ConnectSession(client)
        \/ ConnectInitialize(client)
        \/ ClientGetTools(client)
        \/ ClientCallTool(client)

McpSpec == McpInit /\ [][McpNext]_vars

\* ---------------------------------------------------------------- history shape
IsBatch(m) == m.role = Role.ASSISTANT /\ m.tool_calls /= <<>>

\* Position in messages of the latest assistant message with tool calls.
LastBatch ==
    IF \E p \in 1..Len(messages) : IsBatch(messages[p])
    THEN CHOOSE p \in 1..Len(messages) :
            /\ IsBatch(messages[p])
            /\ \A q \in (p + 1)..Len(messages) : ~IsBatch(messages[q])
    ELSE 0

InCallTools == pc \in {"call_tools", "await_tool"}

\* The tool message t answers the tool call tc.
Answers(t, tc) ==
    /\ t.role = Role.TOOL
    /\ t.tool_call_id = tc.id
    /\ t.name = tc.function.name

\* The first n calls of the batch at p are answered, in order, by the n
\* messages that follow it.
AnsweredUpTo(p, n) ==
    /\ p + n <= Len(messages)
    /\ \A i \in 1..n : Answers(messages[p + i], messages[p].tool_calls[i])

\* Exactly the K calls of the batch at p are answered by tool messages.
BatchAnswered(p) ==
    LET K == Len(messages[p].tool_calls)
    IN /\ AnsweredUpTo(p, K)
       /\ p + K < Len(messages) => messages[p + K + 1].role /= Role.TOOL

\* _call_tools has dealt with call i of the batch at p (it is not waiting,
\* and not a later call of the batch that is being worked on).
Reached(p, i) ==
    \/ p /= LastBatch
    \/ i < callIdx
    \/ i = callIdx /\ pc = "failed" /\ failure /= "GatewayError"

ExecutorErrors == {"not found"}

ErrorIndicator(content) ==
    \E e \in ExecutorErrors : content = "Error executing tool: " \o e

\* ---------------------------------------------------------------- claims
\* C1: in blocking mode, when the first gateway response carries no tool
\* calls, the run makes exactly one gateway call, invokes no tool and
\* returns an assistant turn whose content is that response's content.
C1_ToolFreeBlockingRun ==
    (mode = "blocking" /\ script /= <<>> /\ script[1].tool_calls = <<>>) =>
        /\ pc \in {"returned", "done"}
        /\ gatewayCalls = 1
        /\ Len(script) = 1
        /\ invoked = <<>>
        /\ \A p \in 1..Len(messages) : messages[p].role /= Role.TOOL
        /\ ai_message.role = Role.ASSISTANT
        /\ ai_message.content = script[1].content
        /\ ai_message.tool_calls = <<>>

C1_Witness ==
    /\ mode = "blocking" /\ pc = "returned"
    /\ script = <<[content |-> "Hi", tool_calls |-> <<>>]>>
    /\ ai_message.content = "Hi"
    /\ gatewayCalls = 1

\* C2: when an assistant response carries K tool calls, exactly K tool-role
\* turns follow it in the history, the i-th answering the i-th call (same
\* tool_call_id and name), all of them appended before the next gateway call.
C2_KToolTurnsPerBatch ==
    \A p \in 1..Len(messages) :
        IsBatch(messages[p]) =>
            IF p = LastBatch /\ InCallTools
            THEN /\ AnsweredUpTo(p, callIdx - 1)
                 /\ Len(messages) = p + callIdx - 1
            ELSE BatchAnswered(p)

\* C3: an executor that fails yields a tool-role turn with an error
\* indicator; no executor exception ends the run; after a round whose only
\* call failed in the executor the history is the user turn, the assistant
\* turn with the call and one tool-role error turn, and the run is about to
\* make (or has made) its next gateway call.
C3_Scenario ==
    /\ Len(messages) >= 2
    /\ messages[2].role = Role.ASSISTANT
    /\ Len(messages[2].tool_calls) = 1
    /\ messages[2].tool_calls[1].function = [name |-> "delete_user", arguments |-> ArgsOk]
    /\ MapGet(tool_name_client_map, "delete_user") /= None

C3_ExecutorFailureContained ==
    /\ \A j \in 1..Len(invoked) :
         (/\ ~call_tool(invoked[j].client, invoked[j].name, "dict").ok
          /\ (j < Len(invoked) \/ ~At("await_tool")))
         => \E p \in 1..Len(messages) :
                /\ messages[p].role = Role.TOOL
                /\ messages[p].tool_call_id = invoked[j].id
                /\ messages[p].name = invoked[j].name
                /\ ErrorIndicator(messages[p].content)
    /\ pc = "failed" => failure \in {"GatewayError", "JSONDecodeError"}
    /\ pc = "abandoned" => failure \in {Cancelled(at) : at \in SuspensionPoints}
    /\ (C3_Scenario /\ LastBatch = 2 /\ pc \in {"request", "await_completion"}) =>
         /\ Len(messages) = 3
         /\ messages[1] = InitialMessages[1]
         /\ Answers(messages[3], messages[2].tool_calls[1])
         /\ ErrorIndicator(messages[3].content)
    /\ (C3_Scenario /\ LastBatch = 2 /\ ~InCallTools /\ gatewayCalls = 1) =>
         pc \in {"request", "abandoned"}

C3_Witness ==
    /\ C3_Scenario
    /\ gatewayCalls = 2 /\ pc = "await_completion"
    /\ Len(messages) = 3
    /\ messages[3].content = "Error executing tool: not found"

\* C4: a tool call whose arguments do not parse is contained by the
\* invoker: a tool-role turn answering it is appended and no exception
\* reaches the caller of response / stream_response.
C4_MalformedArgumentsContained ==
    /\ failure /= "JSONDecodeError"
    /\ \A p \in 1..Len(messages) :
         IsBatch(messages[p]) =>
            \A i \in 1..Len(messages[p].tool_calls) :
                (Reached(p, i) /\ ~JsonLoads(messages[p].tool_calls[i].function.arguments).ok)
                => /\ p + i <= Len(messages)
                   /\ Answers(messages[p + i], messages[p].tool_calls[i])

\* C5: a tool call whose name is not in the name-to-executor map yields
\* exactly one tool-role turn with a 'not found' message and the call's id,
\* no executor is invoked for it, and the batch goes on with the next call.
C5_UnknownToolNotFound ==
    \A p \in 1..Len(messages) :
        IsBatch(messages[p]) =>
            \A i \in 1..Len(messages[p].tool_calls) :
                LET tc == messages[p].tool_calls[i]
                IN (Reached(p, i) /\ MapGet(tool_name_client_map, tc.function.name) = None)
                   => /\ p + i <= Len(messages)
                      /\ messages[p + i] = NotFoundMessage(tc)
                      /\ \A j \in 1..Len(invoked) : invoked[j].name /= tc.function.name

\* C6: a failure of call i of a batch (argument parse failure, unknown name,
\* executor failure) never keeps the calls after i from being processed:
\* once the run is outside _call_tools, every call after a failed call of
\* the batch has its own tool-role turn.
FailedCall(tc) ==
    \/ ~JsonLoads(tc.function.arguments).ok
    \/ MapGet(tool_name_client_map, tc.function.name) = None
    \/ ~call_tool(MapGet(tool_name_client_map, tc.function.name),
                  tc.function.name, "dict").ok

C6_BatchSurvivesFailures ==
    (LastBatch /= 0 /\ ~InCallTools) =>
        LET tcs == messages[LastBatch].tool_calls
        IN \A i \in 1..Len(tcs) :
              FailedCall(tcs[i]) =>
                 \A k \in (i + 1)..Len(tcs) :
                    /\ LastBatch + k <= Len(messages)
                    /\ Answers(messages[LastBatch + k], tcs[k])

\* C7: a streamed tool call whose fragments never carried an id is emitted
\* with id absent and is then failed like an unknown tool: no executor is
\* invoked for it and a tool-role error turn is appended.
C7_UnidentifiableCallFailed ==
    /\ \A j \in 1..Len(invoked) : invoked[j].id /= None
    /\ \A p \in 1..Len(messages) :
          (messages[p].role = Role.TOOL /\ messages[p].tool_call_id = None)
          => messages[p].content = "Error: Tool '" \o PyStr(messages[p].name) \o "' not found"

\* C8: a gateway failure in any round, blocking or streaming, leaves
\* response / stream_response as the failure of the run: it becomes no
\* turn (the history is the one the failed request was made with), nothing
\* is persisted or returned, and no further step of the run follows.
C8_GatewayFailurePropagates ==
    failure = "GatewayError" =>
        /\ pc = "failed"
        /\ WireMessages(messages) = lastRequest.messages
        /\ store = EmptyStore
        /\ result = None
        /\ \A e \in 1..Len(emitted) : emitted[e].event \notin {"finish", "done"}
        /\ ~ENABLED Next

C8_Witness ==
    /\ failure = "GatewayError"
    /\ pc = "failed"
    /\ gatewayCalls = 2
    /\ mode = "streaming"
    /\ content_buffer /= ""

\* C9: a model that asks for tool calls in every response is stopped by an
\* enforced maximum number of rounds, and the run then ends in a failure.
\* Within the horizon of the model (the gateway asks for one tool per
\* response, MaxToolCalls times) the run must have been stopped before it
\* makes a further gateway call.
C9_RoundLimitEnforced ==
    gatewayCalls > MaxToolCalls => (pc = "failed" /\ failure = "RoundLimitExceeded")

\* C10: for the same model responses and tool results the blocking run and
\* the streaming run end with the same turns (same roles, wire content,
\* tool calls and tool_call_ids) and the same final assistant content.
C10_ModesEquivalent ==
    (replay /\ pc = "done") =>
        /\ WireMessages(messages) = WireMessages(blockingEnd.messages)
        /\ messages[Len(messages)].role = Role.ASSISTANT
        /\ (IF Truthy(messages[Len(messages)].content)
            THEN messages[Len(messages)].content ELSE "") = blockingEnd.content

\* ---------------------------------------------------------------- C11..C20

\* The argument chunks of the fragments carrying index idx, concatenated in
\* arrival order.
RECURSIVE ArgumentChunksOf(_, _)
ArgumentChunksOf(deltas, idx) ==
    IF deltas = <<>> THEN ""
    ELSE (IF Head(deltas).index = idx /\ Truthy(Head(deltas).function.arguments)
          THEN Head(deltas).function.arguments ELSE "")
         \o ArgumentChunksOf(Tail(deltas), idx)

\* The streaming round has sealed its assistant turn with tool calls.
BatchAssembled ==
    mode = "streaming" /\ pc \in {"call_tools", "await_tool"}

\* C11: whatever the interleaving of the fragments, the arguments string
\* assembled for an index is the concatenation, in arrival order, of the
\* argument chunks of exactly the fragments carrying that index; every index
\* has an accumulator of its own. It holds of every prefix of the fragments
\* received, and of the tool calls of the assistant turn built from them.
C11_ArgumentsPerIndex ==
    LET tool_dict == MergeDeltas(<<>>, tool_deltas)
    IN /\ \A j \in 1..Len(tool_dict) :
            /\ tool_dict[j].call.function.arguments
                 = ArgumentChunksOf(tool_deltas, tool_dict[j].idx)
            /\ \A k \in 1..Len(tool_dict) :
                  tool_dict[k].idx = tool_dict[j].idx => k = j
       /\ BatchAssembled =>
            /\ Len(ai_message.tool_calls) = Len(tool_dict)
            /\ \A j \in 1..Len(tool_dict) :
                  ai_message.tool_calls[j].function.arguments
                    = ArgumentChunksOf(tool_deltas, tool_dict[j].idx)

\* Two calls whose argument chunks arrived interleaved (0, 1, 0, 1) have
\* been assembled.
C11_Witness ==
    /\ BatchAssembled
    /\ Len(tool_deltas) = 4
    /\ tool_deltas[1].index = 0 /\ tool_deltas[2].index = 1
    /\ tool_deltas[3].index = 0 /\ tool_deltas[4].index = 1
    /\ Truthy(tool_deltas[3].function.arguments)
    /\ Truthy(tool_deltas[4].function.arguments)
    /\ ai_message.tool_calls[1].function.arguments = ArgsOk
    /\ ai_message.tool_calls[2].function.arguments = ArgsOk

\* C12: once the stream has ended, the assembled tool calls are emitted in
\* ascending order of index, whatever the order in which the indices first
\* appeared in the stream.
C12_AscendingIndexOrder ==
    BatchAssembled =>
        LET tool_dict == MergeDeltas(<<>>, tool_deltas)
        IN /\ ai_message.tool_calls = [j \in 1..Len(tool_dict) |-> tool_dict[j].call]
           /\ \A j, k \in 1..Len(tool_dict) :
                 j < k => tool_dict[j].idx < tool_dict[k].idx

\* The content deltas among the content fields of a sequence of chunks: one
\* text per chunk that carries any, in arrival order.
RECURSIVE ContentDeltas(_)
ContentDeltas(contents) ==
    IF contents = <<>> THEN <<>>
    ELSE (IF Head(contents) \notin {None, ""} THEN <<Head(contents)>> ELSE <<>>)
         \o ContentDeltas(Tail(contents))

\* The content deltas of all the rounds of the run so far.
RECURSIVE ContentDeltasOfRounds(_)
ContentDeltasOfRounds(rounds) ==
    IF rounds = <<>> THEN <<>>
    ELSE ContentDeltas(Head(rounds)) \o ContentDeltasOfRounds(Tail(rounds))

\* The texts of the content-delta events among a sequence of events.
RECURSIVE ContentEventTexts(_)
ContentEventTexts(events) ==
    IF events = <<>> THEN <<>>
    ELSE (IF Head(events).event = "content" THEN <<Head(events).data>> ELSE <<>>)
         \o ContentEventTexts(Tail(events))

\* C13: in streaming mode every content delta received from the gateway has
\* been emitted as a content-delta event before the next chunk is consumed:
\* at every point of the run the content-delta events emitted so far are
\* exactly the content deltas consumed so far, in arrival order, none
\* dropped and none held back.
C13_ContentEmittedOnArrival ==
    mode = "streaming" =>
        ContentEventTexts(emitted) = ContentDeltasOfRounds(received)

\* A content delta has just been consumed while the gateway stream still
\* holds further chunks, and its event is the last one emitted.
C13_Witness ==
    /\ mode = "streaming" /\ pc = "streaming"
    /\ stream /= <<>>
    /\ received[Len(received)] /= <<>>
    /\ LET last == received[Len(received)][Len(received[Len(received)])]
       IN /\ last \notin {None, ""}
          /\ emitted[Len(emitted)] = ContentEvent(last)

\* The concatenation of a sequence of texts.
RECURSIVE Join(_)
Join(texts) ==
    IF texts = <<>> THEN "" ELSE Head(texts) \o Join(Tail(texts))

\* A streaming round has ended without tool-call fragments and has appended
\* its assistant turn.
AnswerRoundEnded ==
    /\ mode = "streaming"
    /\ pc \in {"yield_finish", "yield_done", "returned", "done"}

\* C14: a streaming round that carried no tool-call fragments appends an
\* assistant turn whose content is the concatenation, in arrival order, of
\* the content deltas of that round, and that turn is the last turn of the
\* history that is persisted.
C14_AnswerIsConcatenation ==
    AnswerRoundEnded =>
        LET last == messages[Len(messages)]
        IN /\ last.role = Role.ASSISTANT
           /\ last.tool_calls = <<>>
           /\ last.content = Join(ContentDeltas(received[Len(received)]))
           /\ pc = "done" =>
                /\ store.messages = messages
                /\ store.messages[Len(store.messages)] = last

\* A streaming run whose answer arrived as the deltas "H", "i" has been
\* persisted with the assistant turn "Hi" last.
C14_Witness ==
    /\ mode = "streaming" /\ pc = "done"
    /\ ContentDeltas(received[Len(received)]) = <<"H", "i">>
    /\ store.messages[Len(store.messages)].role = Role.ASSISTANT
    /\ store.messages[Len(store.messages)].content = "Hi"

\* The positions of a sequence of events that hold an event of one kind.
EventsAt(events, kind) == {e \in 1..Len(events) : events[e].event = kind}

\* C15: a streaming run emits the conversation-id event first, then only
\* content-delta events, then exactly one finish event and then exactly one
\* end-of-stream sentinel, which is the last event of a completed run. As
\* long as the run is in a round that ends in tool calls, or has not ended
\* its answer round, neither a finish event nor a sentinel has been emitted.
C15_EventFraming ==
    mode = "streaming" =>
        LET n == Len(emitted)
            finishes == EventsAt(emitted, "finish")
            dones == EventsAt(emitted, "done")
        IN /\ pc /= "chat" => (n >= 1 /\ EventsAt(emitted, "conversation_id") = {1})
           /\ ~(At("yield_done") \/ At("returned") \/ pc = "done") =>
                (finishes = {} /\ dones = {})
           /\ At("yield_done") => (finishes = {n} /\ dones = {})
           /\ (At("returned") \/ pc = "done") =>
                /\ finishes = {n - 1} /\ dones = {n}
                /\ \A e \in 2..(n - 2) : emitted[e].event = "content"

\* A streaming run with a tool round and an answer round has completed and
\* has emitted content between the conversation-id event and the finish.
C15_Witness ==
    /\ mode = "streaming" /\ pc = "done"
    /\ gatewayCalls >= 2
    /\ Len(emitted) >= 4
    /\ emitted[1] = ConversationIdEvent
    /\ emitted[2].event = "content"
    /\ emitted[Len(emitted) - 1] = FinishEvent
    /\ emitted[Len(emitted)] = DoneEvent

\* The tool turns of a history that report the result or the failure of an
\* invocation (every tool turn but the "not found" ones).
InvocationTurns(history) ==
    {q \in 1..Len(history) :
        /\ history[q].role = Role.TOOL
        /\ history[q] /= NotFoundMessage(ToolCall(history[q].tool_call_id,
                                                  history[q].name, ArgsOk))}

\* C16: tool-call fragments are never emitted to the caller, and while the
\* gateway stream of a round is being consumed no tool call of that round
\* has been assembled into the history and no tool has been invoked for it:
\* the history is still the one sent with the request and every invocation
\* made so far has its tool turn in it.
C16_NoToolWorkBeforeStreamEnd ==
    mode = "streaming" =>
        /\ \A e \in 1..Len(emitted) :
              emitted[e].event \in {"conversation_id", "content", "finish", "done"}
        /\ pc = "streaming" =>
              /\ WireMessages(messages) = lastRequest.messages
              /\ Len(invoked) = Cardinality(InvocationTurns(messages))

\* The second round of a run has received tool-call fragments and its
\* stream still holds chunks; the only invocation is that of the first round.
C16_Witness ==
    /\ mode = "streaming" /\ pc = "streaming"
    /\ gatewayCalls = 2
    /\ tool_deltas /= <<>> /\ stream /= <<>>
    /\ Len(invoked) = 1
    /\ Cardinality(InvocationTurns(messages)) = 1

\* C17: when the registry holds no tool descriptor, every gateway call,
\* blocking or streaming, is made without a tool list (the tools argument
\* is None), never with an empty list; with descriptors the list is passed.
C17_NoToolsArgumentWhenEmpty ==
    gatewayCalls >= 1 =>
        /\ lastRequest.stream = (mode = "streaming")
        /\ tools = <<>> => (lastRequest.tools.is_none /\ lastRequest.tools.list = <<>>)
        /\ tools /= <<>> => (~lastRequest.tools.is_none /\ lastRequest.tools.list = tools)

\* With no server listing any tool, a blocking run has completed and the
\* streaming run that follows it has made its gateway call.
C17_Witness ==
    /\ listing = "empty" /\ tools = <<>>
    /\ replay /\ mode = "streaming"
    /\ blockingEnd /= NoEnd
    /\ gatewayCalls >= 1
    /\ lastRequest.tools.is_none

\* The positions, in startup order, of the executors that declare a name.
Declarers(name) ==
    {c \in 1..Len(Executors) :
        \E t \in 1..Len(ExecutorTools(listing, Executors[c])) :
            ExecutorTools(listing, Executors[c])[t] = name}

DeclaredNames == {"get_user", "delete_user", "fetch", "search"}

\* The executor that declares a name last in startup order (None when no
\* executor declares it).
LastDeclarer(name) ==
    LET ds == Declarers(name)
    IN IF ds = {} THEN None
       ELSE Executors[CHOOSE c \in ds : \A d \in ds : d <= c]

\* C18: when two executors declare a tool of the same name, registration
\* still completes with every descriptor listed, and the name resolves to
\* the executor that registered last in the order UMS, Fetch, DuckDuckGo;
\* every invocation of the name goes to that executor.
C18_LastRegistrationWins ==
    /\ \A name \in DeclaredNames :
          MapGet(tool_name_client_map, name) = LastDeclarer(name)
    /\ \A e \in tool_name_client_map :
          \A f \in tool_name_client_map : e[1] = f[1] => e = f
    /\ Len(tools) = Len(ExecutorTools(listing, "ums"))
                     + Len(ExecutorTools(listing, "fetch"))
                     + Len(ExecutorTools(listing, "duckduckgo"))
    /\ \A t \in 1..Len(tools) : Declarers(tools[t].function.name) /= {}
    /\ \A j \in 1..Len(invoked) :
          invoked[j].client = LastDeclarer(invoked[j].name)

\* get_user is declared by the UMS server and then by the DuckDuckGo
\* server; a call of get_user has been invoked on the DuckDuckGo executor.
C18_Witness ==
    /\ listing = "collision"
    /\ Declarers("get_user") = {1, 3}
    /\ MapGet(tool_name_client_map, "get_user") = "duckduckgo"
    /\ Len(tools) = 5
    /\ \E j \in 1..Len(invoked) :
          invoked[j].name = "get_user" /\ invoked[j].client = "duckduckgo"

\* The position of the nearest turn before q that is not a tool-role turn
\* (0 when there is none).
BatchOf(history, q) ==
    IF \E p \in 1..(q - 1) : history[p].role /= Role.TOOL
    THEN CHOOSE p \in 1..(q - 1) :
            /\ history[p].role /= Role.TOOL
            /\ \A r \in (p + 1)..(q - 1) : history[r].role = Role.TOOL
    ELSE 0

\* Every tool-role turn of a history is the (q - p)-th turn after the
\* assistant turn at p that carries tool calls, and answers its (q - p)-th
\* call with the same tool_call_id and name.
ToolTurnsPaired(history) ==
    \A q \in 1..Len(history) :
        history[q].role = Role.TOOL =>
            LET p == BatchOf(history, q)
            IN /\ p >= 1
               /\ IsBatch(history[p])
               /\ q - p <= Len(history[p].tool_calls)
               /\ history[q].tool_call_id = history[p].tool_calls[q - p].id
               /\ history[q].name = history[p].tool_calls[q - p].function.name

\* Every batch of a history is followed by one tool-role turn per call.
BatchesComplete(history) ==
    \A p \in 1..Len(history) :
        IsBatch(history[p]) =>
            /\ p + Len(history[p].tool_calls) <= Len(history)
            /\ \A i \in 1..Len(history[p].tool_calls) :
                  history[p + i].role = Role.TOOL

IsPrefix(a, b) == Len(a) <= Len(b) /\ SubSeq(b, 1, Len(a)) = a

\* C20: during one orchestration pass, blocking or streaming, the history
\* only grows by appends at its end: every step of a pass (every step but
\* the one that starts the next pass with a fresh history) leaves the
\* history a prefix of the history after the step, so that no turn is
\* removed, reordered or modified.
C20_HistoryAppendOnly ==
    [][Replay \/ IsPrefix(messages, messages')]_vars

\* A streaming pass has grown the history from the user turn by an
\* assistant turn with a call, its tool turn and the final assistant turn.
C20_Witness ==
    /\ mode = "streaming" /\ pc = "done"
    /\ Len(messages) >= 4
    /\ messages[1] = InitialMessages[1]
    /\ IsBatch(messages[2])
    /\ messages[3].role = Role.TOOL
    /\ messages[Len(messages)].role = Role.ASSISTANT

\* The number of tool invocations started and not yet answered by a turn.
InFlight == Len(invoked) - Cardinality(InvocationTurns(messages))

\* C21: the tool calls of a batch are invoked one after the other in the
\* order of the batch: at most one invocation of the run is in flight at any
\* time, it is the invocation of the call the invoker is at, and when it was
\* started the tool-role turns of all the earlier calls of the batch had
\* been appended.
C21_SequentialInvocation ==
    /\ InFlight \in {0, 1}
    /\ InFlight = 1 <=> At("await_tool")
    /\ At("await_tool") =>
          LET tool_call == messages[LastBatch].tool_calls[callIdx]
              started == invoked[Len(invoked)]
          IN /\ LastBatch /= 0
             /\ started.id = tool_call.id
             /\ started.name = tool_call.function.name
             /\ Len(messages) = LastBatch + callIdx - 1
             /\ AnsweredUpTo(LastBatch, callIdx - 1)

\* The second call of a batch of two is in flight; the first has been
\* invoked and answered.
C21_Witness ==
    /\ pc = "await_tool"
    /\ callIdx = 2
    /\ Len(invoked) = 2
    /\ invoked[1].id /= invoked[2].id
    /\ Answers(messages[LastBatch + 1], messages[LastBatch].tool_calls[1])
    /\ Len(messages) = LastBatch + 1

\* The assistant turns of a history, in order.
AssistantTurns(history) ==
    SelectSeq(history, LAMBDA m : m.role = Role.ASSISTANT)

\* Every assistant turn of the history is the sealed turn of a round that
\* has ended: in streaming mode the k-th one holds the whole content of the
\* k-th round received, in blocking mode it is the k-th response.
AssistantTurnsSealed ==
    LET turns == AssistantTurns(messages)
    IN IF mode = "streaming"
       THEN /\ Len(turns) <= Len(received)
            /\ \A k \in 1..Len(turns) :
                  turns[k].content = Join(ContentDeltas(received[k]))
       ELSE /\ Len(turns) <= Len(script)
            /\ \A k \in 1..Len(turns) : turns[k] = AssistantOf(script[k])

\* C22: when the caller abandons the run at a suspension point, every turn
\* of the history is complete. Abandoned while the gateway is awaited or
\* its stream consumed, the history is the one sent with the request: the
\* assistant turn under construction is not in it. Abandoned while a tool
\* result is awaited, the history ends with the turns of the earlier calls
\* of the batch and holds nothing of the call in flight. Every assistant
\* turn in it is a sealed one and every tool turn answers its call.
C22_AbandonedHistoryComplete ==
    pc = "abandoned" =>
        /\ (failure = Cancelled("await_completion") \/ failure = Cancelled("streaming")) =>
              /\ WireMessages(messages) = lastRequest.messages
              /\ mode = "streaming" =>
                    Len(AssistantTurns(messages))
                      = Len(received) - (IF failure = Cancelled("streaming") THEN 1 ELSE 0)
        /\ failure = Cancelled("await_tool") =>
              /\ Len(messages) = LastBatch + callIdx - 1
              /\ AnsweredUpTo(LastBatch, callIdx - 1)
        /\ AssistantTurnsSealed
        /\ ToolTurnsPaired(messages)
        /\ \A q \in 1..Len(messages) :
              messages[q].role = Role.TOOL => Truthy(messages[q].content)

\* A streaming run was abandoned in its second round, after the first
\* piece of the content had arrived and with more of the stream to come.
C22_Witness ==
    /\ pc = "abandoned" /\ failure = Cancelled("streaming")
    /\ mode = "streaming"
    /\ gatewayCalls = 2
    /\ content_buffer = "H"
    /\ stream /= <<>>
    /\ messages[Len(messages)].role = Role.TOOL

\* C23: in blocking mode the response without tool calls becomes the final
\* answer: when the blocking run has completed, the history ends with the
\* assistant turn that was returned, holds it exactly once, and is the
\* history persisted; the reply carries its content.
C23_FinalTurnAppendedOnce ==
    (mode = "blocking" /\ pc = "done") =>
        /\ ai_message = AssistantOf(script[Len(script)])
        /\ ai_message.tool_calls = <<>>
        /\ messages[Len(messages)] = ai_message
        /\ Cardinality({q \in 1..Len(messages) :
                           messages[q].role = Role.ASSISTANT
                           /\ messages[q].tool_calls = <<>>}) = 1
        /\ Len(AssistantTurns(messages)) = Len(script)
        /\ result = (IF Truthy(ai_message.content) THEN ai_message.content ELSE "")
        /\ store.messages = messages

\* A blocking run with one tool round has completed; the answer "Hi" is the
\* last turn of the history.
C23_Witness ==
    /\ mode = "blocking" /\ pc = "done"
    /\ Len(script) = 2
    /\ messages[Len(messages)] = Message(Role.ASSISTANT, "Hi", None, None, <<>>)
    /\ result = "Hi"

\* A key of a serialised message is left out, or holds the field's value,
\* which is then neither None nor empty.
KeyFaithful(key, field) ==
    /\ key \notin {None, ""}
    /\ key = Omitted <=> field \in {None, ""}
    /\ key /= Omitted => key = field

C25_RegistryFixedAfterStartup ==
    /\ tools = lifespan(listing).tools
    /\ tool_name_client_map = lifespan(listing).map

\* A run that made two gateway calls, invoked an executor and answered an
\* unknown tool is over, with a registry that is not empty.
C25_Witness ==
    /\ pc = "done" /\ gatewayCalls >= 2
    /\ invoked /= <<>>
    /\ \E q \in 1..Len(messages) :
          /\ messages[q].role = Role.TOOL
          /\ MapGet(tool_name_client_map, messages[q].name) = None
    /\ tools /= <<>>

\* The turns the handling of request r can produce.
TurnsOf(r) ==
    {UserMessage(r), ToolRound(r)[1], ToolRound(r)[2],
     Message(Role.ASSISTANT, Answer(r), None, None, <<>>)}

\* The conversation stored under an id, NoConversation if there is none.
Stored(conversation_id) ==
    LET conv_data == kv[ConversationKey(conversation_id)]
    IN IF conv_data = Nil THEN NoConversation ELSE conv_data.json

\* C26: handlers running at the same time for different conversations each
\* own their history. The list of a request holds only the turns of that
\* request, the conversation it is about to write is its own, and every
\* message stored under a conversation id is a turn of a request for that
\* conversation; what a handler yields or returns names its own conversation.
C26_RunsOwnTheirHistory ==
    /\ \A r \in Runs :
          /\ \A q \in 1..Len(runs[r].messages) : runs[r].messages[q] \in TurnsOf(r)
          /\ runs[r].pc \in {"save_set", "save_zadd"} =>
                /\ runs[r].conversation.id = runs[r].conv
                /\ runs[r].conversation.messages =
                       [q \in 1..Len(runs[r].messages) |-> model_dump(runs[r].messages[q])]
    /\ \A id \in ConversationIds :
          \A q \in 1..Len(Stored(id).messages) :
              \E r \in Runs : /\ runs[r].conv = id
                              /\ Stored(id).messages[q] \in {model_dump(m) : m \in TurnsOf(r)}
    /\ (reply.op = "yield" /\ reply.body.events /= <<>>
         /\ reply.body.events[1].event = "conversation_id") =>
            reply.body.events[1].data = runs[reply.id].conv
    /\ reply.op = "return" =>
            \E r \in Runs : runs[r].conv = reply.id /\ reply.body.detail = Answer(r)

\* Two handlers are in their save at the same time, for two conversations,
\* one of which already holds the turns of the first request.
C26_Witness ==
    \E r, q \in Runs :
        /\ runs[r].pc = "save_zadd" /\ runs[q].pc = "save_set"
        /\ runs[r].conv /= runs[q].conv
        /\ Len(Stored(runs[r].conv).messages) = Len(runs[r].messages)
        /\ Len(runs[q].messages) = 4
        /\ Stored(runs[q].conv).messages = <<>>

\* C27: chat on a conversation_id that is not in the store is answered
\* with 404, from a ValueError of the manager, and leaves the store and
\* the handlers alone.
C27_UnknownConversationIs404 ==
    (reply.op = "chat" /\ Stored(reply.id) = NoConversation) =>
        /\ reply.status = 404
        /\ reply.error = "ValueError"

\* C28: chat on a stored conversation hands its history to a handler, with
\* the system prompt first when nothing was stored and the user message
\* last; every stored history that is not empty starts with the one
\* system turn.
C28_ChatPrependsAndDelegates ==
    /\ (reply.op = "chat" /\ Stored(reply.id) /= NoConversation) =>
          /\ reply.status = 200
          /\ \E r \in Runs :
                /\ InFlightRun(r) /\ runs[r].conv = reply.id
                /\ runs[r].messages[1].role = Role.SYSTEM
                /\ runs[r].messages[Len(runs[r].messages)].role = Role.USER
    /\ \A id \in ConversationIds :
          Stored(id).messages /= <<>> =>
              /\ Stored(id).messages[1].role = Role.SYSTEM
              /\ \A q \in 2..Len(Stored(id).messages) :
                    Stored(id).messages[q].role /= Role.SYSTEM

\* The members of the sorted set.
Members(z) == {e[1] : e \in z}

\* The ids of the summaries of a list.
ListedIds(conversations) == {conversations[q].id : q \in 1..Len(conversations)}

\* C29: delete_conversation answers True (200) exactly when the key was
\* there when it was called, and False (404) otherwise; when it has
\* returned the id is in neither the key space nor the index, and stays
\* out: get_conversation answers None (404) and list_conversations leaves
\* it out. The delete touches no other key and no other member, and the
\* delete of an absent id changes neither the keys nor the index.
C29_DeleteRemovesKeyAndIndexEntry ==
    [][/\ \A id \in RequestIds :
            /\ (~deletes[id].pending /\ deletes'[id].pending) =>
                  /\ deletes'[id].deleted_count > 0 <=> kv[ConversationKey(id)] /= Nil
                  /\ kv'[ConversationKey(id)] = Nil
                  /\ \A key \in Keys \ {ConversationKey(id)} : kv'[key] = kv[key]
                  /\ deletes'[id].deleted_count = 0 => kv' = kv
                  /\ zset' = zset
            /\ (deletes[id].pending /\ ~deletes'[id].pending) =>
                  /\ reply'.op = "delete" /\ reply'.id = id
                  /\ reply'.status = (IF deletes[id].deleted_count > 0 THEN 200 ELSE 404)
                  /\ kv' = kv /\ kv'[ConversationKey(id)] = Nil
                  /\ id \notin Members(zset')
                  /\ {e \in zset' : e[1] /= id} = {e \in zset : e[1] /= id}
                  /\ deletes[id].deleted_count = 0 => zset' = zset
       /\ \A id \in deleted' :
            /\ kv'[ConversationKey(id)] = Nil
            /\ id \notin Members(zset')
            /\ (reply'.op = "get" /\ reply'.id = id) => reply'.status = 404
            /\ reply'.op = "list" => id \notin ListedIds(reply'.body.conversations)
      ]_vars

\* A conversation has been deleted, a second delete of it has just been
\* answered with 404 and a get with 404, while the other conversation is
\* still stored and listed.
C29_Witness ==
    /\ reply.op = "delete" /\ reply.status = 404 /\ reply.id \in deleted
    /\ \E id \in minted \ deleted :
          /\ Stored(id) /= NoConversation
          /\ id \in Members(zset)

\* A sequence back to front.
Reverse(seq) == [q \in 1..Len(seq) |-> seq[Len(seq) + 1 - q]]

AccumulatorsAfter(p) == MergeDeltas(<<>>, SubSeq(tool_deltas, 1, p))

\* C32 as stated: once the id (or the name) of an index has been set, no
\* later fragment changes it.
C32_IdAndNameImmutable ==
    \A p \in 1..Len(tool_deltas) :
        LET before == AccumulatorsAfter(p - 1)
            after == AccumulatorsAfter(p)
        IN \A j \in 1..Len(before) :
              /\ before[j].call.id /= None => after[j].call.id = before[j].call.id
              /\ before[j].call.function.name /= None =>
                    after[j].call.function.name = before[j].call.function.name

\* C32, amended: the id (the name) of an index's accumulator changes only
\* when a fragment of that index carries a non-empty id (name), and then
\* to the id (name) of that fragment; every other fragment leaves it as
\* it is, so it is immutable once set in a stream that gives each index
\* its id and its name once. Stated of the fragment received last: every
\* earlier fragment was the last one in an earlier state.
C32_IdAndNameSetByOwnFragments ==
    tool_deltas /= <<>> =>
        LET p == Len(tool_deltas)
            before == AccumulatorsAfter(p - 1)
            after == MergeDelta(before, tool_deltas[p])
            fragment == tool_deltas[p]
        IN \A j \in 1..Len(before) :
              /\ after[j].idx = before[j].idx
              /\ after[j].call.id /= before[j].call.id =>
                    /\ fragment.index = before[j].idx
                    /\ Truthy(fragment.id)
                    /\ after[j].call.id = fragment.id
              /\ after[j].call.function.name /= before[j].call.function.name =>
                    /\ fragment.index = before[j].idx
                    /\ Truthy(fragment.function.name)
                    /\ after[j].call.function.name = fragment.function.name

\* A round has been assembled in which a later fragment replaced the id
\* and the name an earlier fragment of the same index had set, and in
\* which a fragment of another index left them alone.
C32_Witness ==
    /\ BatchAssembled
    /\ Len(tool_deltas) = 4
    /\ AccumulatorsAfter(1)[1].call.id = "call_draft"
    /\ AccumulatorsAfter(2)[1].call.id /= "call_draft"
    /\ AccumulatorsAfter(2)[1].call.function.name /= "draft"
    /\ tool_deltas[3].index /= tool_deltas[2].index
    /\ AccumulatorsAfter(4)[1].call.id = AccumulatorsAfter(2)[1].call.id

\* The last truthy value of a sequence, None if there is none.
LastNonEmpty(values) ==
    LET set == {q \in 1..Len(values) : Truthy(values[q])}
    IN IF set = {} THEN None
       ELSE values[CHOOSE q \in set : \A o \in set : o <= q]

\* The fragments of one index, in arrival order.
FragmentsOf(deltas, idx) == SelectSeq(deltas, LAMBDA f : f.index = idx)

\* C33: the assembled call of an index carries the last non-empty id and
\* the last non-empty name among the fragments of that index (none if no
\* fragment carried one); fragments without an id or a name change nothing.
\* It holds of the accumulators and of the assistant turn built from them.
C33_LastNonEmptyWins ==
    LET tool_dict == MergeDeltas(<<>>, tool_deltas)
        IdOf(idx) == LET fs == FragmentsOf(tool_deltas, idx)
                     IN LastNonEmpty([q \in 1..Len(fs) |-> fs[q].id])
        NameOf(idx) == LET fs == FragmentsOf(tool_deltas, idx)
                       IN LastNonEmpty([q \in 1..Len(fs) |-> fs[q].function.name])
    IN /\ \A j \in 1..Len(tool_dict) :
            /\ tool_dict[j].call.id = IdOf(tool_dict[j].idx)
            /\ tool_dict[j].call.function.name = NameOf(tool_dict[j].idx)
       /\ BatchAssembled =>
            /\ Len(ai_message.tool_calls) = Len(tool_dict)
            /\ \A j \in 1..Len(tool_dict) :
                  /\ ai_message.tool_calls[j].id = IdOf(tool_dict[j].idx)
                  /\ ai_message.tool_calls[j].function.name = NameOf(tool_dict[j].idx)

\* The assistant turn of a round carries, for an index whose fragments
\* brought two different ids and names, the later ones.
C33_Witness ==
    /\ BatchAssembled
    /\ Len(tool_deltas) >= 2
    /\ tool_deltas[1].index = tool_deltas[2].index
    /\ tool_deltas[1].id = "call_draft" /\ Truthy(tool_deltas[2].id)
    /\ tool_deltas[2].id /= "call_draft"
    /\ ai_message.tool_calls[1].id = tool_deltas[2].id
    /\ ai_message.tool_calls[1].function.name = tool_deltas[2].function.name
    /\ ai_message.tool_calls[1].function.name /= "draft"

\* The history from position p on is a sequence of whole tool rounds: an
\* assistant turn with tool calls followed by one tool turn for each of its
\* calls, in the order of the calls, and then the next round.
RECURSIVE WholeRounds(_, _)
WholeRounds(history, p) ==
    IF p > Len(history) THEN TRUE
    ELSE /\ IsBatch(history[p])
         /\ LET K == Len(history[p].tool_calls)
            IN /\ p + K <= Len(history)
               /\ \A i \in 1..K : Answers(history[p + i], history[p].tool_calls[i])
               /\ WholeRounds(history, p + K + 1)

\* C34: every gateway call is made with the whole history as it stands:
\* the caller's turns, then for each earlier round of the run, in order,
\* the assistant turn of that round with its tool calls followed by all
\* the tool turns of that round. One round has gone before each call but
\* the first, and nothing of the history is left out of the request.
C34_RequestCarriesFullHistory ==
    pc = "await_completion" =>
        /\ lastRequest.messages = WireMessages(messages)
        /\ Len(lastRequest.messages) = Len(messages)
        /\ IsPrefix(InitialMessages, messages)
        /\ WholeRounds(messages, Len(InitialMessages) + 1)
        /\ Len(AssistantTurns(messages)) = gatewayCalls - 1
        /\ AssistantTurnsSealed

\* The third gateway call of a run is being awaited: two tool rounds have
\* gone before it and the request holds their four turns after the
\* caller's.
C34_Witness ==
    /\ pc = "await_completion"
    /\ gatewayCalls = 3
    /\ Len(lastRequest.messages) = Len(InitialMessages) + 4
    /\ lastRequest.messages[2].role = Role.ASSISTANT
    /\ lastRequest.messages[3].role = Role.TOOL
    /\ lastRequest.messages[4].role = Role.ASSISTANT
    /\ lastRequest.messages[5].role = Role.TOOL

\* The contents of the assistant turns of a history, in order.
AssistantContents(history) ==
    LET turns == AssistantTurns(history)
    IN [k \in 1..Len(turns) |-> turns[k].content]

\* The round whose stream was opened last has not appended its turn yet.
RoundOpen == Len(received) > Len(AssistantTurns(messages))

\* C36: in a streaming run, whatever the number of tool rounds, the
\* content-delta events concatenate to the contents, in order, of the
\* assistant turns the run has appended; while a round is still being
\* received, to those followed by what the round has buffered so far. A
\* run that has returned has no round open.
C36_EventsConcatenateToTurnContents ==
    mode = "streaming" =>
        /\ Join(ContentEventTexts(emitted))
              = Join(AssistantContents(messages))
                  \o (IF RoundOpen THEN content_buffer ELSE "")
        /\ pc \in {"yield_finish", "yield_done", "returned", "done"} => ~RoundOpen

\* A streaming run has returned after two tool rounds and a final answer,
\* every round with content.
C36_Witness ==
    /\ mode = "streaming" /\ pc = "returned"
    /\ Len(AssistantTurns(messages)) = 3
    /\ \A k \in 1..3 : AssistantContents(messages)[k] \notin {"", None}
    /\ Len(ContentEventTexts(emitted)) >= 3

\* The descriptor lists of a sequence of executors, one after the other.
RECURSIVE DescriptorsOf(_)
DescriptorsOf(clients) ==
    IF clients = <<>> THEN <<>>
    ELSE get_tools(listing, Head(clients)) \o DescriptorsOf(Tail(clients))

\* The number of descriptors of the list that carry a name.
TimesListed(name) ==
    Cardinality({t \in 1..Len(tools) : tools[t].function.name = name})

\* C37: after startup the descriptor list is the executors' descriptor
\* lists one after the other, in registration order, and the name of every
\* descriptor resolves in the map to an executor that declares it. A name
\* is listed once for each executor declaring it and has one map entry.
C37_ListIsConcatenationAndNamesResolve ==
    /\ tools = DescriptorsOf(Executors)
    /\ \A name \in {tools[t].function.name : t \in 1..Len(tools)} :
          LET declaring == Declarers(name)
          IN /\ MapGet(tool_name_client_map, name) \in {Executors[c] : c \in declaring}
             /\ TimesListed(name) = Cardinality(declaring)
             /\ Cardinality({e \in tool_name_client_map : e[1] = name}) = 1
    /\ \A e \in tool_name_client_map : TimesListed(e[1]) >= 1

\* Two executors declare get_user: the list sent to the gateway holds its
\* descriptor twice, the map holds one executor for it.
C37_Witness ==
    /\ listing = "collision"
    /\ gatewayCalls >= 1
    /\ TimesListed("get_user") = 2
    /\ Len(lastRequest.tools.list) = 5
    /\ Cardinality({e \in tool_name_client_map : e[1] = "get_user"}) = 1
    /\ Cardinality(tool_name_client_map) = 4

\* C31: get_tools and call_tool of a client whose session has not been
\* set raise RuntimeError and the server is not contacted: no server has a
\* request from a client without a session, and an operation answered
\* while the session is unset is answered with RuntimeError only. Once
\* create() has returned the session is set, and neither operation raises
\* RuntimeError: the request reaches the server.
C31_UnconnectedClientRaises ==
    /\ \A c \in ClientNames :
          /\ session[c] = None => \A r \in requests : r[1] /= c
          /\ connect_pc[c] \in {"unborn", "constructed", "streams"} => session[c] = None
          /\ connect_pc[c] = "connected" => session[c] = ClientSession
    /\ mcp_reply.op \in {"get_tools", "call_tool"} =>
          /\ (session[mcp_reply.client] = None) <=> (mcp_reply.error = "RuntimeError")
          /\ mcp_reply.error = "RuntimeError" =>
                /\ mcp_reply.tools = <<>>
                /\ mcp_reply.text = None
          /\ connect_pc[mcp_reply.client] = "connected" =>
                /\ mcp_reply.error /= "RuntimeError"
                /\ <<mcp_reply.client,
                      IF mcp_reply.op = "get_tools" THEN "list_tools" ELSE "call_tool">>
                        \in requests
                /\ mcp_reply.op = "get_tools" =>
                      mcp_reply.tools = get_tools(listing, mcp_reply.client)

\* The stdio client, constructed but never connected, has just refused
\* call_tool, while an HTTP client returned by create() has listed its tools.
C31_Witness ==
    /\ connect_pc["duckduckgo"] = "constructed"
    /\ mcp_reply = NotConnectedError("duckduckgo", "call_tool")
    /\ connect_pc["ums"] = "connected"
    /\ <<"ums", "list_tools">> \in requests
    /\ \A r \in requests : r[1] /= "duckduckgo"

\* The score of a member of the index, as a set: empty if it is not one.
ScoreOf(z, member) == {e[2] : e \in {f \in z : f[1] = member}}

\* C35: the store is written only after the loop has completed. Entering
\* the handler writes nothing; while the loop of a request runs, no step
\* changes the key or the index entry of its conversation; and the step by
\* which the loop fails, or by which the consumer of a streaming handler
\* stops reading, writes nothing either. The stored conversation, its
\* messages and updated_at, is then what it was before the chat, and the
\* user message of the request is not in it.
C35_FailedChatLeavesStoreAsItWas ==
    [][\A r \in Runs :
          LET key == ConversationKey(runs[r].conv)
          IN /\ (runs[r].pc = "idle" /\ runs'[r].pc = "loop") =>
                    /\ kv' = kv /\ zset' = zset
                    /\ model_dump(UserMessage(r)) \notin
                          {Stored(runs'[r].conv).messages[q] :
                              q \in 1..Len(Stored(runs'[r].conv).messages)}
             /\ runs[r].pc = "loop" =>
                    /\ RedisGet(kv', key) = RedisGet(kv, key)
                    /\ ScoreOf(zset', runs[r].conv) = ScoreOf(zset, runs[r].conv)
             /\ (runs[r].pc = "loop" /\ runs'[r].pc = "left") =>
                    /\ kv' = kv /\ zset' = zset
                    /\ reply'.op \in {"raise", "close"}
      ]_vars

\* The consumer of the second chat of a conversation has stopped reading:
\* the conversation still holds what the first chat saved, and nothing of
\* the second request.
C35_Witness ==
    /\ reply.op = "close" /\ reply.id = 2
    /\ runs[1].pc = "left" /\ runs[2].pc = "left"
    /\ runs[1].conv = runs[2].conv
    /\ Stored(runs[2].conv).messages /= <<>>
    /\ \A q \in 1..Len(Stored(runs[2].conv).messages) :
          Stored(runs[2].conv).messages[q] \in {model_dump(m) : m \in TurnsOf(1)}

\* C38: a conversation whose delete has returned True is not brought back
\* by a chat that was in flight: its key is absent and it is not a member
\* of the index, whatever the save of that chat still had to do.
C38_DeletedStaysDeleted ==
    \A id \in deleted :
        /\ RedisGet(kv, ConversationKey(id)) = Nil
        /\ id \notin Members(zset)

====
